---- MODULE Spec2Model ----
(***************************************************************************)
(* Engram cognitive scheduling core: the internal market                   *)
(* (core/internal_economy.py), the seeking drive (core/seeking_drive.py),  *)
(* the heartbeat (reasoning/heartbeat.py) and the awake engine             *)
(* (reasoning/awake_engine.py).                                            *)
(*                                                                         *)
(* Number representation.  The program computes in floats; the model uses  *)
(* fixed point:                                                            *)
(*   credits (wallets, bid values, costs, grants)  in 1/12 credit          *)
(*   seeking_level, target_level                   in 1/1000               *)
(*   energy_level                                  in percent              *)
(*   quality_score, consistency_score              in 1/100                *)
(*   time (dt, lease duration)                     in seconds              *)
(* A lease stores end_time - now ("remaining") in place of start_time and   *)
(* duration; the auction compares now < end_time, i.e. remaining > 0.      *)
(***************************************************************************)
EXTENDS Integers, Sequences, FiniteSets, TLC

\* ---------------------------------------------------------------- bounds
MaxTicks == 2
MaxBids == 2
MaxGrants == 1
LongDt == 61
\* seconds elapsed between two auctions
Dts == {1, LongDt}
MaxBeats == 3
MaxQueue == 4
ErrorBurst == 6
MaxErrors == 6
MaxCycles == 6
OverCap == 3
MaxRetrieved == 2
MaxClock == 40
ClockTick == 10
MaxOpened == 3
MaxEvals == 2
MaxDetects == 3
HalfHour == 1800
MaxHours == 5400
MaxStoreOps == 3
MaxFeedback == 2
MaxWrites == 2
MaxCounted == 1
Moment == 1
MaxCapacity == 2
MaxUpdates == 2
MaxAccess == 3
FocusTick == 150
FocusSpan == 450

\* ------------------------------------------------------ program constants
RpmCapacity == 60
InterruptFactor == 50
SurgeMultiplier == 10
LowBattery == 20
RechargeRate == 10
DrainRateBase == 2
BusyRpm == 15
ReaperPeriod == 10
PruneCap == 500
MaxHistory == 300
ErrorWindow == 60
MaxDeliberations == 3
ErrorThreshold == 30
SafeRisk == 4500
DefaultSim == 65
HonestConfidence == 2000
WindowDuration == 30
PipelineCapacity == 7
RecencySpan == 300
IntegrityBoost == 50
IntegritySlash == 250
UncertaintyThreshold == 600
ConsistencyThreshold == 800
ProofPenalty == 200
ProofFloor == 300
NoProposition == 700
DuplicateSpan == 3600
TableColumns == 22
InsertValues == 21
DreamMinQuality == 400
FastDecay == 800
HardDecay == 900

None == "none"
NoLease == [agent_id |-> None, remaining |-> 0, cost |-> 0]
AWAKE == "awake_engine"
AGENT_B == "agent_b"
GHOST == "unregistered"
Agents == {AWAKE, AGENT_B}

Max(a, b) == IF a >= b THEN a ELSE b
Min(a, b) == IF a <= b THEN a ELSE b

RECURSIVE SeqsUpTo(_, _)
SeqsUpTo(S, n) ==
    IF n = 0 THEN {<<>>}
    ELSE LET shorter == SeqsUpTo(S, n - 1)
         IN  shorter \cup {Append(q, x) : q \in shorter, x \in S}

VARIABLES
    wallets,        \* InternalMarket.wallets: registered agent -> credits
    power_lease,    \* InternalMarket.power_lease: None or [agent_id, remaining, cost]
    energy_level,   \* InternalMarket.energy_level
    pending_grants, \* InternalMarket.pending_grants
    seeking_level,  \* SeekingDrive.seeking_level
    target_level,   \* SeekingDrive.target_level
    mpc,            \* position inside run_auction: ready / reset / minted / granted
    dt,             \* run_auction local dt
    new_credits,    \* run_auction local new_credits
    bids,           \* run_auction argument
    result,         \* last value returned by run_auction
    ticks,          \* number of completed run_auction calls
    hist            \* history: TRUE between the reset and the UBI of a tick iff
                    \* some wallet held a non-zero balance when the tick began

mvars == <<wallets, power_lease, energy_level, pending_grants, seeking_level,
           target_level, mpc, dt, new_credits, bids, result, ticks, hist>>

VARIABLES
    hpc,            \* Heartbeat: step of _tick being run, or "sleep" between ticks
    hsub,           \* Heartbeat: position inside the current step
    tick_count,     \* Heartbeat.tick_count
    halted,         \* Heartbeat.halted
    error_window,   \* Heartbeat._error_window
    history,        \* Heartbeat.history
    snap,           \* the snapshot of the running tick
    errors_total,   \* MetricsTracker errors_total, raised by the environment
    burst,          \* _metacognitive_adjust local weak
    order,          \* history: the steps of the current tick, in the order begun
    recv            \* history: receive_allocation calls made in the current tick

hvars == <<hpc, hsub, tick_count, halted, error_window, history, snap,
           errors_total, burst, order, recv>>

VARIABLES
    mode,           \* AwakeEngine.mode
    running,        \* AwakeEngine.running
    allocation,     \* AwakeEngine.allocation
    workload_queue, \* AwakeEngine.workload_queue (engram ids)
    lock,           \* holder of AwakeEngine._lock, or None
    apc,            \* awake thread: position in start() / _step()
    abs_obj,        \* _think / _focused_reasoning local abs_obj
    candidates,     \* _idle_scan local candidates
    filtered,       \* _idle_scan: the list built by the reaper before it is stored
    consistency_checks, \* AwakeEngine.consistency_checks modulo the reaper period
    stepped,        \* history: what the step in progress has run, and at which energy
    cycle_count,    \* _step: cycles executed so far
    owed,           \* history: items enqueued and not yet popped, reaped or pruned
    store           \* EngramStorage: [low: count of consistency < 0.5, weak: ids]

avars == <<mode, running, allocation, workload_queue, lock, apc,
                   abs_obj, candidates, filtered, consistency_checks, stepped,
                   owed, cycle_count, store>>

VARIABLES
    ppc,            \* process_query: position (idle / retrieve / fast / compete / post / done / raised)
    attempt,        \* process_query local attempt
    relevant_abs,   \* process_query local relevant_abs: the retrieved engrams
    fast_result,    \* _parallel_competition local fast_result
    guard,          \* _fast_path_scored locals risk, is_safe, honest_forced
    best_winner,    \* process_query local best_winner
    best_confidence, \* process_query local best_confidence
    all_relevant_abs, \* process_query local all_relevant_abs
    cycles,         \* history: winner, retrieved set and LLM outcome of each cycle run
    response        \* value returned by process_query

pvars == <<ppc, attempt, relevant_abs, fast_result, guard, best_winner,
           best_confidence, all_relevant_abs, cycles, response>>

VARIABLES
    clock,          \* time.time(), in seconds
    active_windows, \* ReconsolidationEngine.active_windows: engram id -> window
    totals,         \* ReconsolidationEngine.total_opened / _strengthened / _updated / _weakened
    engrams,        \* the Abstraction objects held by the caller: id -> scores
    last_mods,      \* value returned by the last evaluate_and_modify
    evals           \* number of evaluate_and_modify calls made

rvars == <<clock, active_windows, totals, engrams, last_mods, evals>>

VARIABLES
    active,           \* ImpasseDetector.active: the unresolved impasses, in order
    resolved_history, \* ImpasseDetector.resolved_history
    itotals,          \* ImpasseDetector.total_created / total_resolved
    created,          \* history: type, domain and time of every impasse appended to active
    detects           \* number of detect calls made

ivars == <<active, resolved_history, itotals, created, detects>>

VARIABLES
    rows,           \* EngramStorage: the abstractions table, id -> row
    links,          \* EngramStorage: the links table, as (source_id, target_id) pairs
    chroma,         \* EngramStorage.collection: id -> document
    sret,           \* operation, result and outcome of the last store call
    dpc,            \* run_decay_cycle: position (idle / loop)
    decay_ids,      \* run_decay_cycle local all_ids still to visit
    cluster_counts, \* run_decay_cycle local cluster_counts
    sops            \* number of store calls made

svars == <<rows, links, chroma, sret, dpc, decay_ids, cluster_counts, sops>>

VARIABLES
    capacity,       \* WorkingMemory.capacity
    items,          \* WorkingMemory.items
    wtotals,        \* WorkingMemory total_insertions / total_evictions / total_accesses
    wpc,            \* position inside update: idle / loop
    wpending,       \* update: the retrieved engrams the loop has still to visit
    wmin,           \* update argument min_relevance
    new_items,      \* update local new_items, the value it returns
    wupdates        \* number of update calls begun

wvars == <<capacity, items, wtotals, wpc, wpending, wmin, new_items, wupdates>>

VARIABLES
    last_query_engrams, \* EngramPipeline._last_query_engrams, as engram ids
    fpc,            \* feedback handler being run: idle / helpful / wrong
    fstage,         \* position inside the handler's loop body: open / evaluate
    fqueue,         \* the engrams the handler's loop has still to visit
    fcount,         \* the handler's local count
    fcalls          \* number of feedback calls begun

fvars == <<last_query_engrams, fpc, fstage, fqueue, fcount, fcalls>>

VARIABLES
    proof_of,       \* abs_obj.proof_id of the engram objects the awake engine holds
    proofs_generated, \* AwakeEngine.proofs_generated
    scanned,        \* the ids the last _find_weak_abstractions returned
    gret,           \* how the last store-writing handler ended: [op, raised]
    gops            \* number of store-writing handlers run

gvars == <<proof_of, proofs_generated, scanned, gret, gops>>

VARIABLES
    creators        \* the create_abstraction call of each client thread: its position and locals

cvars == <<creators>>

xvars == <<rvars, ivars, svars, wvars, fvars, gvars, cvars>>

vars == <<mvars, hvars, avars, pvars, xvars>>

\* ------------------------------------------------------------ SeekingDrive

\* SeekingDrive.mint_currency: new target_level
MintTarget(target, d) ==
    LET t1 == (target * (1000 - 50 * d)) \div 1000
    IN  IF t1 < 300 THEN 300 ELSE t1

\* SeekingDrive.mint_currency: new seeking_level
MintLevel(level, target, d) ==
    level + ((MintTarget(target, d) - level) * Min(1000, 500 * d)) \div 1000

\* SeekingDrive.mint_currency: amount = base_mint_rate * level^2 * 5 * dt
MintAmount(level, target, d) ==
    LET l1 == MintLevel(level, target, d)
    IN  (6 * l1 * l1 * d) \div 1000

\* SeekingDrive.evaluate_proposal
evaluate_proposal(level, cost, utility) ==
    IF cost <= 0 THEN TRUE
    ELSE 2000 * utility >= cost * (4000 - 3 * level)

\* ---------------------------------------------------------- InternalMarket

NoResult == [path |-> "none", allocs |-> <<>>]

\* wallets.get(agent_id, 0)
WalletGet(w, a) == IF a \in DOMAIN w THEN w[a] ELSE 0

ResetWalletsKeep(w) == w

\* run_auction step 0: for agent in self.wallets: self.wallets[agent] = 0.0
ResetWallets(w) == [a \in DOMAIN w |-> 0]

\* run_auction step 1: equal share of the minted credits for every wallet
GrantUBI(w, minted) ==
    IF DOMAIN w = {} THEN w
    ELSE [a \in DOMAIN w |-> w[a] + minted \div Cardinality(DOMAIN w)]

\* run_auction step 1.5: fund every approved proposal of a registered agent
RECURSIVE ProcessGrants(_, _, _)
ProcessGrants(w, reqs, level) ==
    IF reqs = <<>> THEN w
    ELSE LET req == Head(reqs)
             w1 == IF /\ evaluate_proposal(level, req.amount, req.utility)
                      /\ req.agent_id \in DOMAIN w
                   THEN [w EXCEPT ![req.agent_id] = @ + req.amount]
                   ELSE w
         IN  ProcessGrants(w1, Tail(reqs), level)

\* scarcity_multiplier of run_auction
ScarcityMultiplier(energy) == IF energy < LowBattery THEN SurgeMultiplier ELSE 1

HighBidsAtLeast(bs, lease) ==
    SelectSeq(bs, LAMBDA b : b.value >= lease.cost * InterruptFactor)

\* high_bids = [b for b in bids if b.value > interrupt_threshold]
HighBids(bs, lease) ==
    SelectSeq(bs, LAMBDA b : b.value > lease.cost * InterruptFactor)

\* max(high_bids, key=lambda b: b.value): the first bid of maximal value
RECURSIVE MaxByValue(_)
MaxByValue(bs) ==
    IF Len(bs) = 1 THEN Head(bs)
    ELSE LET m == MaxByValue(Tail(bs))
         IN  IF Head(bs).value >= m.value THEN Head(bs) ELSE m


\* pay = winner.value
InterruptPay(winner, energy) == winner.value

\* bids.sort(key=lambda b: b.value, reverse=True): stable, descending
RECURSIVE InsertByValue(_, _)
InsertByValue(sorted, b) ==
    IF sorted = <<>> THEN <<b>>
    ELSE IF Head(sorted).value >= b.value
         THEN <<Head(sorted)>> \o InsertByValue(Tail(sorted), b)
         ELSE <<b>> \o sorted

RECURSIVE SortByValueDesc(_)
SortByValueDesc(bs) ==
    IF bs = <<>> THEN <<>>
    ELSE InsertByValue(SortByValueDesc(SubSeq(bs, 1, Len(bs) - 1)), bs[Len(bs)])

\* available.get(bid.resource, 0)
Available(st, resource) ==
    CASE resource = "COMPUTE_RPM" -> st.rpm
      [] resource = "MEMORY_SLOT" -> st.mem
      [] resource = "POWER_LEASE" -> st.slot
      [] OTHER -> 0

\* one iteration of the loop of _process_standard_auction
ProcessBid(st, bid, multiplier) ==
    LET cost == bid.value * multiplier
    IN  IF bid.value <= 0 \/ bid.amount <= 0 THEN st
        ELSE IF Available(st, bid.resource) <= 0 THEN st
        ELSE IF WalletGet(st.w, bid.agent_id) < cost THEN st
        ELSE LET paid == [st EXCEPT
                            !.w = [st.w EXCEPT ![bid.agent_id] = @ - cost],
                            !.allocs = Append(@, [resource |-> bid.resource,
                                                  winner |-> bid.agent_id,
                                                  amount |-> bid.amount,
                                                  cost |-> cost])]
             IN  CASE bid.resource = "POWER_LEASE" ->
                        [paid EXCEPT !.slot = 0, !.rpm = 0,
                            !.lease = IF st.lease # NoLease THEN st.lease
                                      ELSE [agent_id |-> bid.agent_id,
                                            remaining |-> bid.amount,
                                            cost |-> cost]]
                   [] bid.resource = "COMPUTE_RPM" ->
                        [paid EXCEPT !.rpm = @ - Min(st.rpm, bid.amount)]
                   [] bid.resource = "MEMORY_SLOT" ->
                        [paid EXCEPT !.mem = @ - 1]
                   [] OTHER -> paid

RECURSIVE ProcessBids(_, _, _)
ProcessBids(st, bs, multiplier) ==
    IF bs = <<>> THEN st
    ELSE ProcessBids(ProcessBid(st, Head(bs), multiplier), Tail(bs), multiplier)

\* sum(r["amount"] for r in results.get("COMPUTE_RPM", []))
RECURSIVE TotalRpm(_)
TotalRpm(allocs) ==
    IF allocs = <<>> THEN 0
    ELSE (IF Head(allocs).resource = "COMPUTE_RPM" THEN Head(allocs).amount ELSE 0)
         + TotalRpm(Tail(allocs))

\* step 5 of _process_standard_auction and recharge()
MetabolicUpdate(energy, allocs, lease, d) ==
    IF TotalRpm(allocs) > BusyRpm \/ lease # NoLease
    THEN Max(0, energy - DrainRateBase * d * (IF lease # NoLease THEN 3 ELSE 1))
    ELSE Min(100, energy + RechargeRate * d)

\* _process_standard_auction: the state after the loop
StandardAuction(w, lease, bs, multiplier) ==
    ProcessBids([w |-> w, rpm |-> RpmCapacity, mem |-> 1, slot |-> 1,
                 lease |-> lease, allocs |-> <<>>],
                SortByValueDesc(bs), multiplier)

\* the three return statements of run_auction after the grants
ClearLeaseHeld(lease) ==
    [lease |-> lease, w |-> wallets, energy |-> energy_level,
     result |-> [path |-> "lease_held",
                 allocs |-> <<[resource |-> "POWER_LEASE", winner |-> lease.agent_id,
                               amount |-> 0, cost |-> 0]>>]]

ClearInterrupt(high) ==
    LET winner == MaxByValue(high)
    IN  [lease |-> NoLease, w |-> wallets, energy |-> energy_level,
         result |-> [path |-> "interrupt",
                     allocs |-> <<[resource |-> winner.resource,
                                   winner |-> winner.agent_id,
                                   amount |-> winner.amount,
                                   cost |-> InterruptPay(winner, energy_level)]>>]]

ClearStandard ==
    LET st == StandardAuction(wallets, NoLease, bids, ScarcityMultiplier(energy_level))
    IN  [lease |-> st.lease, w |-> st.w,
         energy |-> MetabolicUpdate(energy_level, st.allocs, st.lease, dt),
         result |-> [path |-> "standard", allocs |-> st.allocs]]

\* run_auction from "3. Check Active Lease" to its return
ClearOutcome ==
    IF power_lease # NoLease /\ power_lease.remaining > 0
    THEN IF HighBids(bids, power_lease) = <<>>
         THEN ClearLeaseHeld(power_lease)
         ELSE ClearInterrupt(HighBids(bids, power_lease))
    ELSE ClearStandard

\* InternalMarket.register_agent
register_agent(a, initial) ==
    /\ mpc = "ready"
    /\ a \notin DOMAIN wallets
    /\ wallets' = [x \in DOMAIN wallets \cup {a} |->
                      IF x = a THEN initial ELSE wallets[x]]
    /\ UNCHANGED <<power_lease, energy_level, pending_grants, seeking_level,
                   target_level, mpc, dt, new_credits, bids, result, ticks, hist>>

transfer_credits_overdraw(sender, receiver, amount) ==
    /\ mpc = "ready"
    /\ wallets' = IF \/ amount <= 0
                     \/ sender \notin DOMAIN wallets
                     \/ receiver \notin DOMAIN wallets
                  THEN wallets
                  ELSE LET w1 == [wallets EXCEPT ![sender] = @ - amount]
                       IN  [w1 EXCEPT ![receiver] = @ + amount]
    /\ UNCHANGED <<power_lease, energy_level, pending_grants, seeking_level,
                   target_level, mpc, dt, new_credits, bids, result, ticks, hist>>

\* InternalMarket.transfer_credits; its return value is TRUE iff wallets change
transfer_credits(sender, receiver, amount) ==
    /\ mpc = "ready"
    /\ wallets' = IF \/ amount <= 0
                     \/ WalletGet(wallets, sender) < amount
                     \/ receiver \notin DOMAIN wallets
                  THEN wallets
                  ELSE LET w1 == [wallets EXCEPT ![sender] = @ - amount]
                       IN  [w1 EXCEPT ![receiver] = @ + amount]
    /\ UNCHANGED <<power_lease, energy_level, pending_grants, seeking_level,
                   target_level, mpc, dt, new_credits, bids, result, ticks, hist>>

\* InternalMarket.submit_proposal
submit_proposal(a, amount, utility) ==
    /\ mpc = "ready"
    /\ Len(pending_grants) < MaxGrants
    /\ pending_grants' = Append(pending_grants,
                                [agent_id |-> a, amount |-> amount, utility |-> utility])
    /\ UNCHANGED <<wallets, power_lease, energy_level, seeking_level,
                   target_level, mpc, dt, new_credits, bids, result, ticks, hist>>

\* run_auction, entry to the end of step 0: d seconds have passed since last_tick
RunAuctionBegin(bidlist, d) ==
    /\ mpc = "ready"
    /\ dt' = d
    /\ bids' = bidlist
    /\ power_lease' = IF power_lease = NoLease THEN NoLease
                      ELSE [power_lease EXCEPT !.remaining = Max(0, @ - d)]
    /\ wallets' = ResetWallets(wallets)
    /\ hist' = (\E a \in DOMAIN wallets : wallets[a] # 0)
    /\ mpc' = "reset"
    /\ UNCHANGED <<energy_level, pending_grants, seeking_level, target_level,
                   new_credits, result, ticks>>

\* run_auction step 1: mint and distribute the UBI
AuctionMint ==
    /\ mpc = "reset"
    /\ target_level' = MintTarget(target_level, dt)
    /\ seeking_level' = MintLevel(seeking_level, target_level, dt)
    /\ new_credits' = MintAmount(seeking_level, target_level, dt)
    /\ wallets' = GrantUBI(wallets, new_credits')
    /\ hist' = FALSE
    /\ mpc' = "minted"
    /\ UNCHANGED <<power_lease, energy_level, pending_grants, dt, bids, result,
                   ticks>>

\* run_auction step 1.5: innovation proposals
AuctionGrants ==
    /\ mpc = "minted"
    /\ wallets' = ProcessGrants(wallets, pending_grants, seeking_level)
    /\ pending_grants' = <<>>
    /\ mpc' = "granted"
    /\ UNCHANGED <<power_lease, energy_level, seeking_level, target_level, dt,
                   new_credits, bids, result, ticks, hist>>

\* run_auction steps 3-5: lease arbitration or the standard auction, and return
AuctionClear ==
    /\ mpc = "granted"
    /\ LET out == ClearOutcome
       IN  /\ power_lease' = out.lease
           /\ wallets' = out.w
           /\ energy_level' = out.energy
           /\ result' = out.result
    /\ ticks' = ticks + 1
    /\ mpc' = "ready"
    /\ UNCHANGED <<pending_grants, seeking_level, target_level, dt, new_credits,
                   bids, hist>>

\* ------------------------------------------------------------- AwakeEngine

IDLE == "idle"
THINKING == "thinking"
FOCUSED == "focused"
DREAMING == "dreaming"
SLEEPING == "sleeping"

\* The engrams of the store that the scans can return: quality_score and
\* consistency_score in 1/100, age in minutes.
Quality(e) == CASE e = "e1" -> 30 [] e = "e2" -> 55 [] OTHER -> 70
Consistency(e) == CASE e = "e1" -> 30 [] e = "e2" -> 70 [] OTHER -> 70
AgeMinutes(e) == CASE e = "e1" -> 60 [] OTHER -> 0

\* AwakeEngine._find_weak_abstractions(limit=3)
FindWeak(st) == st.weak

UrgencyQualityOnly(e) == Quality(e)

\* urgency key of _think / _focused_reasoning: quality + age_seconds / 600
Urgency(e) == Quality(e) + 10 * AgeMinutes(e)

\* the items of q whose urgency is one of keys, most urgent first, items of
\* equal urgency in their order in q
RECURSIVE SortByKeys(_, _)
SortByKeys(q, keys) ==
    IF keys = {} THEN <<>>
    ELSE LET m == CHOOSE k \in keys : \A j \in keys : j <= k
         IN  SelectSeq(q, LAMBDA e : Urgency(e) = m) \o SortByKeys(q, keys \ {m})

\* workload_queue.sort(key=urgency, reverse=True): stable, descending
SortByUrgency(q) == SortByKeys(q, {Urgency(q[i]) : i \in 1..Len(q)})

\* the reaper of _idle_scan: keep items younger than one hour or of quality > 0.5
Reap(q) == SelectSeq(q, LAMBDA e : AgeMinutes(e) < 60 \/ Quality(e) > 50)

\* ruthless pruning of _focused_reasoning
PruneOverflow(q) ==
    IF Len(q) > PruneCap THEN SubSeq(q, 1, (Len(q) * 9) \div 10) ELSE q

RECURSIVE SumQuality(_)
SumQuality(q) == IF q = <<>> THEN 0 ELSE Quality(Head(q)) + SumQuality(Tail(q))

\* AwakeEngine.construct_bid: the bid built from the queue
construct_bid(q) ==
    LET n == Len(q)
        urgent == n > 0 /\ 2 * SumQuality(q) < 100 * n
        base == IF n > 50 THEN [value |-> n, amount |-> 60, exclusive |-> TRUE]
                ELSE IF n > 0 THEN [value |-> 12 + 6 * n, amount |-> 30,
                                    exclusive |-> FALSE]
                ELSE [value |-> 12, amount |-> 10, exclusive |-> FALSE]
        final == IF urgent
                 THEN [value |-> base.value + 120, amount |-> 60, exclusive |-> TRUE]
                 ELSE base
    IN  [agent_id |-> AWAKE,
         resource |-> IF final.exclusive THEN "POWER_LEASE" ELSE "COMPUTE_RPM",
         amount |-> final.amount,
         value |-> final.value]

\* a bailout proposal whose utility only equals its cost
BailoutAtCost(q) ==
    IF Len(q) > 50
    THEN <<[agent_id |-> AWAKE, amount |-> 60 * Len(q), utility |-> 60 * Len(q)]>>
    ELSE <<>>

\* AwakeEngine.construct_bid: the bailout proposal submitted when the queue is massive
BailoutProposals(q) ==
    IF Len(q) > 50
    THEN <<[agent_id |-> AWAKE, amount |-> 60 * Len(q), utility |-> 120 * Len(q)]>>
    ELSE <<>>

NoAllocation == [resource |-> None, amount |-> 0]

\* AwakeEngine.receive_allocation: the mode it sets
ModeForAllocation(current, alloc) ==
    IF alloc.amount > 0
    THEN IF alloc.resource = "POWER_LEASE" THEN FOCUSED
         ELSE IF alloc.amount >= 10 THEN THINKING ELSE IDLE
    ELSE IDLE

\* AwakeEngine.start: the awake thread begins its loop
AwakeStart ==
    /\ apc = "init"
    /\ running' = TRUE
    /\ apc' = "loop"
    /\ UNCHANGED <<mode, allocation, workload_queue, lock, abs_obj, candidates,
                   filtered, consistency_checks, stepped, owed, cycle_count,
                   store>>
    /\ UNCHANGED <<mvars, hvars, pvars, xvars>>

\* start(): while self.running: if allocation amount > 0: self._step()
AwakeLoop ==
    /\ apc = "loop"
    /\ ~running \/ (allocation.amount > 0 /\ cycle_count < MaxCycles)
    /\ apc' = IF running THEN "energy" ELSE "exited"
    /\ cycle_count' = IF running THEN cycle_count + 1 ELSE cycle_count
    /\ UNCHANGED <<mode, running, allocation, workload_queue, lock, abs_obj,
                   candidates, filtered, consistency_checks, stepped, owed,
                   store>>
    /\ UNCHANGED <<mvars, hvars, pvars, xvars>>

\* _step: the energy check that enters or leaves DREAMING
AwakeEnergyCheck ==
    /\ apc = "energy"
    /\ mode' = IF energy_level < 20 THEN DREAMING
               ELSE IF mode = DREAMING /\ energy_level > 80 THEN IDLE
               ELSE mode
    /\ stepped' = [kind |-> "none", low |-> energy_level < 20]
    /\ apc' = "dispatch"
    /\ UNCHANGED <<running, allocation, workload_queue, lock, abs_obj,
                   candidates, filtered, consistency_checks, owed, cycle_count,
                   store>>
    /\ UNCHANGED <<mvars, hvars, pvars, xvars>>

\* _step: dispatch on the mode read now
AwakeDispatch ==
    /\ apc = "dispatch"
    /\ apc' = CASE mode = IDLE -> "idle_find"
                [] mode = THINKING -> "think"
                [] mode = FOCUSED -> "focus"
                [] mode = DREAMING -> "dream"
                [] OTHER -> "adjust"
    /\ stepped' = [stepped EXCEPT !.kind = IF mode = SLEEPING THEN "none" ELSE mode]
    /\ UNCHANGED <<mode, running, allocation, workload_queue, lock, abs_obj,
                   candidates, filtered, consistency_checks, owed, cycle_count,
                   store>>
    /\ UNCHANGED <<mvars, hvars, pvars, xvars>>

\* _idle_scan: candidates = self._find_weak_abstractions(limit=3)
AwakeIdleFind ==
    /\ apc = "idle_find"
    /\ candidates' = FindWeak(store)
    /\ apc' = IF candidates' # <<>> THEN "idle_extend" ELSE "reaper"
    /\ UNCHANGED <<mode, running, allocation, workload_queue, lock, abs_obj,
                   filtered, consistency_checks, stepped, owed, cycle_count,
                   store>>
    /\ UNCHANGED <<mvars, hvars, pvars, xvars>>

\* _idle_scan: with self._lock: extend; then _switch_mode(THINKING)
AwakeIdleExtend ==
    /\ apc = "idle_extend"
    /\ lock = None
    /\ Len(workload_queue) + Len(candidates) <= MaxQueue
    /\ workload_queue' = workload_queue \o candidates
    /\ owed' = owed + Len(candidates)
    /\ mode' = THINKING
    /\ apc' = "reaper"
    /\ UNCHANGED <<running, allocation, lock, abs_obj, candidates, filtered,
                   consistency_checks, stepped, cycle_count, store>>
    /\ UNCHANGED <<mvars, hvars, pvars, xvars>>

\* _idle_scan, the reaper: every 10th check take the lock and build the filtered list
AwakeReaperRead ==
    /\ apc = "reaper"
    /\ IF consistency_checks % ReaperPeriod = 0
       THEN /\ lock = None
            /\ lock' = AWAKE
            /\ filtered' = Reap(workload_queue)
            /\ owed' = owed - (Len(workload_queue) - Len(Reap(workload_queue)))
            /\ apc' = "reaper_write"
            /\ UNCHANGED consistency_checks
       ELSE /\ consistency_checks' = (consistency_checks + 1) % ReaperPeriod
            /\ apc' = "adjust"
            /\ UNCHANGED <<lock, filtered, owed>>
    /\ UNCHANGED <<mode, running, allocation, workload_queue, abs_obj,
                   candidates, stepped, cycle_count, store>>
    /\ UNCHANGED <<mvars, hvars, pvars, xvars>>

\* _idle_scan, the reaper: self.workload_queue = [...]; release the lock
AwakeReaperWrite ==
    /\ apc = "reaper_write"
    /\ workload_queue' = filtered
    /\ filtered' = <<>>
    /\ lock' = None
    /\ consistency_checks' = (consistency_checks + 1) % ReaperPeriod
    /\ apc' = "adjust"
    /\ UNCHANGED <<mode, running, allocation, abs_obj, candidates, stepped,
                   owed, cycle_count, store>>
    /\ UNCHANGED <<mvars, hvars, pvars, xvars>>

\* _think: with self._lock: empty -> IDLE, else sort by urgency and pop(0)
AwakeThinkPop ==
    /\ apc = "think"
    /\ lock = None
    /\ IF workload_queue = <<>>
       THEN /\ mode' = IDLE
            /\ apc' = "adjust"
            /\ UNCHANGED <<workload_queue, abs_obj, owed>>
       ELSE /\ abs_obj' = Head(SortByUrgency(workload_queue))
            /\ workload_queue' = Tail(SortByUrgency(workload_queue))
            /\ owed' = owed - 1
            /\ apc' = "think_work"
            /\ UNCHANGED mode
    /\ UNCHANGED <<running, allocation, lock, candidates, filtered,
                   consistency_checks, stepped, cycle_count, store>>
    /\ UNCHANGED <<mvars, hvars, pvars, xvars>>

\* _think: escalate (push back, FOCUSED) when consistency < 0.6, else refine
AwakeThinkWork ==
    /\ apc = "think_work"
    /\ IF Consistency(abs_obj) < 60
       THEN /\ lock = None
            /\ workload_queue' = <<abs_obj>> \o workload_queue
            /\ owed' = owed + 1
            /\ mode' = FOCUSED
       ELSE UNCHANGED <<workload_queue, owed, mode>>
    /\ abs_obj' = None
    /\ apc' = "adjust"
    /\ UNCHANGED <<running, allocation, lock, candidates, filtered,
                   consistency_checks, stepped, cycle_count, store>>
    /\ UNCHANGED <<mvars, hvars, pvars, xvars>>

\* _focused_reasoning: with self._lock: empty -> THINKING, else sort, pop(0), prune
AwakeFocusPop ==
    /\ apc = "focus"
    /\ lock = None
    /\ IF workload_queue = <<>>
       THEN /\ mode' = THINKING
            /\ apc' = "adjust"
            /\ UNCHANGED <<workload_queue, abs_obj, owed>>
       ELSE LET rest == Tail(SortByUrgency(workload_queue))
            IN  /\ abs_obj' = Head(SortByUrgency(workload_queue))
                /\ workload_queue' = PruneOverflow(rest)
                /\ owed' = owed - 1 - (Len(rest) - Len(PruneOverflow(rest)))
                /\ apc' = "focus_work"
                /\ UNCHANGED mode
    /\ UNCHANGED <<running, allocation, lock, candidates, filtered,
                   consistency_checks, stepped, cycle_count, store>>
    /\ UNCHANGED <<mvars, hvars, pvars, xvars>>

\* _focused_reasoning after the pop: no proposition -> THINKING; after a proof
\* attempt (proven or not) -> THINKING when the queue is empty
AwakeFocusWork ==
    /\ apc = "focus_work"
    /\ \E proposition \in BOOLEAN :
          mode' = IF ~proposition \/ workload_queue = <<>> THEN THINKING ELSE mode
    /\ abs_obj' = None
    /\ apc' = "adjust"
    /\ UNCHANGED <<running, allocation, workload_queue, lock, candidates,
                   filtered, consistency_checks, stepped, owed, cycle_count,
                   store>>
    /\ UNCHANGED <<mvars, hvars, pvars, xvars>>

\* _dream: with self._lock: storage.prune_orphans(min_quality=0.4)
AwakeDream ==
    /\ apc = "dream"
    /\ lock = None
    /\ apc' = "adjust"
    /\ UNCHANGED <<mode, running, allocation, workload_queue, lock, abs_obj,
                   candidates, filtered, consistency_checks, stepped, owed,
                   cycle_count, store>>
    /\ UNCHANGED <<mvars, hvars, pvars, xvars>>

\* _adjust_hz, then back to the loop of start()
AwakeAdjust ==
    /\ apc = "adjust"
    /\ apc' = "loop"
    /\ UNCHANGED <<mode, running, allocation, workload_queue, lock, abs_obj,
                   candidates, filtered, consistency_checks, stepped, owed,
                   cycle_count, store>>
    /\ UNCHANGED <<mvars, hvars, pvars, xvars>>

\* AwakeEngine.stop, called from another thread (stop_engines)
stop ==
    /\ running
    /\ mode' = SLEEPING
    /\ running' = FALSE
    /\ UNCHANGED <<allocation, workload_queue, lock, apc, abs_obj, candidates,
                   filtered, consistency_checks, stepped, owed, cycle_count,
                   store>>
    /\ UNCHANGED <<mvars, hvars, pvars, xvars>>

\* --------------------------------------------------------------- Heartbeat

TickOrderAuctionFirst ==
    <<"collect", "store", "breaker", "metacog", "auction", "listeners">>

\* Heartbeat._tick: the order of its steps
TickOrder == <<"collect", "store", "breaker", "metacog", "listeners", "auction">>

\* the step that follows step s in _tick, "sleep" after the last one
StepAfter(s) ==
    LET i == CHOOSE k \in 1..Len(TickOrder) : TickOrder[k] = s
    IN  IF i = Len(TickOrder) THEN "sleep" ELSE TickOrder[i + 1]

\* deque(maxlen=n).append(x)
AppendMax(q, x, n) ==
    IF Len(q) >= n THEN Append(Tail(q), x) ELSE Append(q, x)

RECURSIVE SumSeq(_)
SumSeq(q) == IF q = <<>> THEN 0 ELSE Head(q) + SumSeq(Tail(q))

\* _check_circuit_breaker: errors_this_tick
ErrorsThisTick(sn, h) ==
    sn.errors_total - (IF Len(h) >= 2 THEN h[Len(h) - 1].errors_total ELSE 0)

\* _check_circuit_breaker: error_rate > 5.0
BreakerTrips(window) == SumSeq(window) > 5 * Max(Len(window), 1)

\* _distribute_allocations: resources of the result in dict order
RECURSIVE ResourceOrder(_)
ResourceOrder(allocs) ==
    IF allocs = <<>> THEN <<>>
    ELSE LET r == allocs[Len(allocs)].resource
             before == ResourceOrder(SubSeq(allocs, 1, Len(allocs) - 1))
         IN  IF \E i \in 1..Len(before) : before[i] = r THEN before
             ELSE Append(before, r)

\* _distribute_allocations: my_alloc after the loops
RECURSIVE AwakeAllocation(_, _, _)
AwakeAllocation(allocs, resources, my) ==
    IF resources = <<>> THEN my
    ELSE LET won == SelectSeq(allocs, LAMBDA a : a.resource = Head(resources)
                                                 /\ a.winner = AWAKE)
             my1 == IF won = <<>> THEN my
                    ELSE [resource |-> Head(resources), amount |-> won[1].amount]
         IN  AwakeAllocation(allocs, Tail(resources), my1)

\* _tick: tick_count += 1; snapshot = self._collect_snapshot()
HbCollect ==
    /\ hpc = "sleep"
    /\ tick_count < MaxBeats
    /\ tick_count' = tick_count + 1
    /\ \E inc \in {0, ErrorBurst} :
          /\ errors_total + inc <= MaxErrors
          /\ errors_total' = errors_total + inc
    /\ snap' = [low_consistency_count |-> store.low, errors_total |-> errors_total']
    /\ order' = <<"collect">>
    /\ recv' = 0
    /\ hpc' = StepAfter("collect")
    /\ UNCHANGED <<hsub, halted, error_window, history, burst>>
    /\ UNCHANGED <<mvars, avars, pvars, xvars>>

\* _tick: self.history.append(snapshot); self.current = snapshot
HbStore ==
    /\ hpc = "store"
    /\ history' = AppendMax(history, snap, MaxHistory)
    /\ order' = Append(order, "store")
    /\ hpc' = StepAfter("store")
    /\ UNCHANGED <<hsub, tick_count, halted, error_window, snap, errors_total,
                   burst, recv>>
    /\ UNCHANGED <<mvars, avars, pvars, xvars>>

\* _check_circuit_breaker, with awake.stop() when it trips
HbBreaker ==
    /\ hpc = "breaker"
    /\ error_window' = AppendMax(error_window, ErrorsThisTick(snap, history),
                                 ErrorWindow)
    /\ IF BreakerTrips(error_window') /\ ~halted
       THEN /\ halted' = TRUE
            /\ mode' = SLEEPING
            /\ running' = FALSE
       ELSE UNCHANGED <<halted, mode, running>>
    /\ order' = Append(order, "breaker")
    /\ hpc' = StepAfter("breaker")
    /\ UNCHANGED <<hsub, tick_count, history, snap, errors_total, burst, recv>>
    /\ UNCHANGED <<allocation, workload_queue, lock, apc, abs_obj, candidates,
                   filtered, consistency_checks, stepped, owed, cycle_count,
                   store>>
    /\ UNCHANGED <<mvars, pvars, xvars>>

\* _metacognitive_adjust up to the call of trigger_focused_burst
HbMetacogCheck ==
    /\ hpc = "metacog"
    /\ hsub = "start"
    /\ order' = Append(order, "metacog")
    /\ IF running /\ snap.low_consistency_count > 5 /\ mode = IDLE
          /\ FindWeak(store) # <<>>
       THEN /\ burst' = FindWeak(store)
            /\ hsub' = "burst"
            /\ UNCHANGED hpc
       ELSE /\ hpc' = StepAfter("metacog")
            /\ UNCHANGED <<hsub, burst>>
    /\ UNCHANGED <<tick_count, halted, error_window, history, snap, errors_total,
                   recv>>
    /\ UNCHANGED <<mvars, avars, pvars, xvars>>

\* AwakeEngine.trigger_focused_burst, called by _metacognitive_adjust
HbBurst ==
    /\ hpc = "metacog"
    /\ hsub = "burst"
    /\ Len(workload_queue) + Len(burst) <= MaxQueue
    /\ workload_queue' = workload_queue \o burst
    /\ owed' = owed + Len(burst)
    /\ mode' = FOCUSED
    /\ burst' = <<>>
    /\ hsub' = "start"
    /\ hpc' = StepAfter("metacog")
    /\ UNCHANGED <<tick_count, halted, error_window, history, snap, errors_total,
                   order, recv>>
    /\ UNCHANGED <<running, allocation, lock, apc, abs_obj, candidates,
                   filtered, consistency_checks, stepped, cycle_count, store>>
    /\ UNCHANGED <<mvars, pvars, xvars>>

\* _tick: for callback in self._listeners: callback(snapshot)
HbListeners ==
    /\ hpc = "listeners"
    /\ order' = Append(order, "listeners")
    /\ hpc' = StepAfter("listeners")
    /\ UNCHANGED <<hsub, tick_count, halted, error_window, history, snap,
                   errors_total, burst, recv>>
    /\ UNCHANGED <<mvars, avars, pvars, xvars>>

\* _collect_bids: awake.construct_bid() under the engine lock
HbBids ==
    /\ hpc = "auction"
    /\ hsub = "start"
    /\ lock = None
    /\ bids' = <<construct_bid(workload_queue)>>
    /\ pending_grants' = pending_grants \o BailoutProposals(workload_queue)
    /\ order' = Append(order, "auction")
    /\ hsub' = "call"
    /\ UNCHANGED <<hpc, tick_count, halted, error_window, history, snap,
                   errors_total, burst, recv>>
    /\ UNCHANGED <<wallets, power_lease, energy_level, seeking_level, target_level,
                   mpc, dt, new_credits, result, ticks, hist>>
    /\ UNCHANGED <<avars, pvars, xvars>>

\* _tick: allocations = self.market.run_auction(bids), entry
HbRunAuction ==
    /\ hpc = "auction"
    /\ hsub = "call"
    /\ \E d \in Dts : RunAuctionBegin(bids, d)
    /\ hsub' = "distribute"
    /\ UNCHANGED <<hpc, tick_count, halted, error_window, history, snap,
                   errors_total, burst, order, recv>>
    /\ UNCHANGED <<avars, pvars, xvars>>

\* _distribute_allocations: a result that maps a resource to a dict instead of
\* a list of winners makes win["winner"] raise TypeError, which _tick swallows
HbDistribute ==
    /\ hpc = "auction"
    /\ hsub = "distribute"
    /\ mpc = "ready"
    /\ IF result.path = "lease_held"
       THEN UNCHANGED <<allocation, mode, recv>>
       ELSE LET my == AwakeAllocation(result.allocs, ResourceOrder(result.allocs),
                                      NoAllocation)
            IN  /\ allocation' = my
                /\ mode' = ModeForAllocation(mode, my)
                /\ recv' = recv + 1
    /\ hsub' = "start"
    /\ hpc' = StepAfter("auction")
    /\ UNCHANGED <<tick_count, halted, error_window, history, snap, errors_total,
                   burst, order>>
    /\ UNCHANGED <<running, workload_queue, lock, apc, abs_obj, candidates,
                   filtered, consistency_checks, stepped, owed, cycle_count,
                   store>>
    /\ UNCHANGED <<mvars, pvars, xvars>>

\* ---------------------------------------------------------- EngramPipeline
\* quality_score and decay_score in 1/100; risk and confidence in 1/10000;
\* error magnitude in 1/100.

NoWinner == [content |-> [cycle |-> 0, kind |-> "none"], confidence |-> 0,
             path |-> "none"]
NoGuard == [risk |-> 0, is_safe |-> FALSE, forced |-> FALSE, llm |-> "none"]

RECURSIVE SumField(_, _)
SumField(r, f) == IF r = <<>> THEN 0 ELSE Head(r)[f] + SumField(Tail(r), f)

\* TruthGuard.calculate_risk: Len(r) times the weighted risk of a non-empty r;
\* no engram carries _embedding_cache_sim, so every similarity is the default
RiskSum(r) ==
    45 * (100 - DefaultSim) * Len(r)
        + 35 * (100 * Len(r) - SumField(r, "q"))
        + 20 * SumField(r, "d")

IsSafeLax(r) == RiskSum(r) < 5000 * Len(r)

\* TruthGuard.calculate_risk: is_safe = risk < 0.45
IsSafe(r) == RiskSum(r) < SafeRisk * Len(r)

\* TruthGuard.calculate_risk: (min(risk, 1.0), is_safe)
calculate_risk(r) ==
    IF r = <<>> THEN [risk |-> 10000, is_safe |-> FALSE]
    ELSE [risk |-> Min(RiskSum(r) \div Len(r), 10000), is_safe |-> IsSafe(r)]

\* TruthGuard.enforce_honest_response: TRUE iff it returns the forced message
enforce_honest_response(risk) == ~(risk < SafeRisk)

\* _fast_path_scored: confidence = (1 - risk) * avg_quality, or 0.3 without engrams
FastConfidence(r) ==
    IF r = <<>> THEN 3000
    ELSE ((10000 * Len(r) - RiskSum(r)) * SumField(r, "q")) \div (100 * Len(r) * Len(r))

\* LLMInterface.reason: the provider's answer, or the canned sentence when the
\* provider call fails and returns None
ReasonKind(llm_ok) == IF llm_ok THEN "llm" ELSE "canned"

\* _fast_path_scored
FastPathScored(r, llm_ok, cycle) ==
    LET tg == calculate_risk(r)
    IN  IF enforce_honest_response(tg.risk)
        THEN [content |-> [cycle |-> cycle, kind |-> "honest"],
              confidence |-> HonestConfidence, path |-> "fast_honest"]
        ELSE [content |-> [cycle |-> cycle, kind |-> ReasonKind(llm_ok)],
              confidence |-> FastConfidence(r), path |-> "fast"]

\* proof.confidence of a proof found in the given cycle
ProofConfidence(cycle) == IF cycle = 1 THEN 9500 ELSE 4000

\* _symbolic_path_scored as _parallel_competition sees it: nothing when the
\* router does not ask for it or it raises, confidence 0 when the proof fails
SymbolicResult(sym, cycle) ==
    CASE sym = "proven" -> [content |-> [cycle |-> cycle, kind |-> "proof"],
                            confidence |-> ProofConfidence(cycle), path |-> "symbolic"]
      [] sym = "failed" -> [content |-> [cycle |-> cycle, kind |-> "none"],
                            confidence |-> 0, path |-> "symbolic_failed"]
      [] OTHER -> NoWinner

\* _parallel_competition: max(candidates, key=confidence), the fast result first
CompetitionWinner(fast, symbolic) ==
    IF symbolic.path # "none" /\ symbolic.confidence > 0
       /\ symbolic.confidence > fast.confidence
    THEN symbolic ELSE fast

ConfidentAnyError(w, err) == w.confidence >= 5000

\* process_query: winner.confidence >= 0.5 and error_mag < CONFIDENCE_THRESHOLD
Confident(w, err) == w.confidence >= 5000 /\ err < ErrorThreshold

\* engram profiles the searcher can return: [q: quality_score, d: decay_score]
EngramPool ==
    { [q |-> 90, d |-> 0], [q |-> 50, d |-> 0], [q |-> 10, d |-> 0] }

\* sets retrieved by one search: up to MaxRetrieved engrams of the pool
RetrievedSets == SeqsUpTo(EngramPool, MaxRetrieved)

\* error magnitudes the prediction engine can report
ErrorMagnitudes == {10, 50}

BetterOrLatest(w, best) == TRUE

\* process_query: if winner.confidence > best_confidence
Better(w, best) == w.confidence > best

InitQuery ==
    /\ ppc = "idle"
    /\ attempt = 0
    /\ relevant_abs = <<>>
    /\ fast_result = NoWinner
    /\ guard = NoGuard
    /\ best_winner = NoWinner
    /\ best_confidence = 0
    /\ all_relevant_abs = <<>>
    /\ cycles = <<>>
    /\ response = NoWinner.content

\* process_query: the gate; a query it rejects is answered with a request to rephrase
PqGate ==
    /\ ppc = "idle"
    /\ \E passes \in BOOLEAN :
          IF passes
          THEN /\ ppc' = "retrieve"
               /\ UNCHANGED response
          ELSE /\ ppc' = "done"
               /\ response' = [cycle |-> 0, kind |-> "rephrase"]
    /\ UNCHANGED <<attempt, relevant_abs, fast_result, guard, best_winner,
                   best_confidence, all_relevant_abs, cycles>>
    /\ UNCHANGED <<mvars, hvars, avars, xvars>>

\* process_query: for attempt in range(MAX_DELIBERATIONS): relevant_abs = search(...)
PqRetrieve ==
    /\ ppc = "retrieve"
    /\ \E r \in RetrievedSets : relevant_abs' = r
    /\ ppc' = "fast"
    /\ UNCHANGED <<attempt, fast_result, guard, best_winner, best_confidence,
                   all_relevant_abs, cycles, response>>
    /\ UNCHANGED <<mvars, hvars, avars, xvars>>

\* _parallel_competition: fast_result = self._fast_path_scored(...)
PqFast ==
    /\ ppc = "fast"
    /\ \E llm_ok \in BOOLEAN :
          LET tg == calculate_risk(relevant_abs)
              forced == enforce_honest_response(tg.risk)
          IN  /\ fast_result' = FastPathScored(relevant_abs, llm_ok, attempt + 1)
              /\ guard' = [risk |-> tg.risk, is_safe |-> tg.is_safe,
                           forced |-> forced,
                           llm |-> IF forced THEN "none"
                                   ELSE IF llm_ok THEN "ok" ELSE "failed"]
    /\ ppc' = "compete"
    /\ UNCHANGED <<attempt, relevant_abs, best_winner, best_confidence,
                   all_relevant_abs, cycles, response>>
    /\ UNCHANGED <<mvars, hvars, avars, xvars>>

\* _parallel_competition from the symbolic path on, then the rest of the loop
\* body: prediction error, best tracking, break or next attempt
PqCompete ==
    /\ ppc = "compete"
    /\ \E sym \in {"none", "failed", "proven"}, err \in ErrorMagnitudes :
          LET winner == CompetitionWinner(fast_result,
                                          SymbolicResult(sym, attempt + 1))
              better == Better(winner, best_confidence)
          IN  /\ best_winner' = IF better THEN winner ELSE best_winner
              /\ best_confidence' = IF better THEN winner.confidence
                                    ELSE best_confidence
              /\ all_relevant_abs' = IF better THEN relevant_abs
                                     ELSE all_relevant_abs
              /\ cycles' = Append(cycles, [winner |-> winner, error |-> err,
                                           retrieved |-> relevant_abs,
                                           llm |-> guard.llm,
                                           symbolic |-> sym])
              /\ IF Confident(winner, err) \/ attempt + 1 >= MaxDeliberations
                 THEN ppc' = "post" /\ UNCHANGED attempt
                 ELSE ppc' = "retrieve" /\ attempt' = attempt + 1
    /\ UNCHANGED <<relevant_abs, fast_result, guard, response>>
    /\ UNCHANGED <<mvars, hvars, avars, xvars>>

\* ---------------------------------------------------- ReconsolidationEngine
\* scores are in thousandths

\* the ids of the engrams a query can retrieve
EngramIds == {"eng_1", "eng_2"}

\* dict(m, k, v): the mapping m with m[k] = v
MapPut(m, k, v) == [x \in DOMAIN m \cup {k} |-> IF x = k THEN v ELSE m[x]]

\* del m[k]
MapDel(m, K) == [x \in DOMAIN m \ K |-> m[x]]

\* ReconsolidationWindow.is_open; a window still in active_windows is not closed
IsOpen(w, now) == now - w.opened_at < WindowDuration

NoMods == [kind |-> None, quality_score |-> -1, consistency_score |-> -1,
           decay_score |-> -1]

\* the branch evaluate_and_modify takes
ModKind(response_quality, prediction_error) ==
    IF response_quality > 700 /\ prediction_error < 300 THEN "strengthen"
    ELSE IF prediction_error > 700 THEN "weaken"
    ELSE IF prediction_error > 300 THEN "update"
    ELSE None

ModificationsUnclamped(engram, response_quality, prediction_error) ==
    LET kind == ModKind(response_quality, prediction_error)
    IN  CASE kind = "strengthen" ->
               [kind |-> kind,
                quality_score |-> engram.quality_score + (response_quality * 20) \div 1000,
                consistency_score |-> engram.consistency_score + 10,
                decay_score |-> -1]
          [] kind = "weaken" ->
               [kind |-> kind,
                quality_score |-> engram.quality_score - (prediction_error * 50) \div 1000,
                consistency_score |-> -1,
                decay_score |-> engram.decay_score + 50]
          [] kind = "update" -> [NoMods EXCEPT !.kind = kind]
          [] OTHER -> NoMods

\* the modifications dict evaluate_and_modify builds for an open window
Modifications(engram, response_quality, prediction_error) ==
    LET kind == ModKind(response_quality, prediction_error)
        quality_boost == Min(50, (response_quality * 20) \div 1000)
        quality_penalty == Min(100, (prediction_error * 50) \div 1000)
    IN  CASE kind = "strengthen" ->
               [kind |-> kind,
                quality_score |-> Min(1000, engram.quality_score + quality_boost),
                consistency_score |-> Min(1000, engram.consistency_score + 10),
                decay_score |-> -1]
          [] kind = "weaken" ->
               [kind |-> kind,
                quality_score |-> Max(100, engram.quality_score - quality_penalty),
                consistency_score |-> -1,
                decay_score |-> Min(1000, engram.decay_score + 50)]
          [] kind = "update" -> [NoMods EXCEPT !.kind = kind]
          [] OTHER -> NoMods

\* the counter evaluate_and_modify increments for a branch
Counted(t, kind) ==
    CASE kind = "strengthen" -> [t EXCEPT !.strengthened = @ + 1]
      [] kind = "weaken" -> [t EXCEPT !.weakened = @ + 1]
      [] kind = "update" -> [t EXCEPT !.updated = @ + 1]
      [] OTHER -> t

\* ReconsolidationEngine.open_window: windows and counters after the call
OpenWindow(windows, t, id, now) ==
    IF id \in DOMAIN windows /\ IsOpen(windows[id], now)
    THEN [windows |-> windows, totals |-> t]
    ELSE [windows |-> MapPut(windows, id,
                             [opened_at |-> now, strengthened |-> FALSE,
                              weakened |-> FALSE]),
          totals |-> [t EXCEPT !.opened = @ + 1]]

\* ReconsolidationEngine.evaluate_and_modify: return value, windows and counters
Evaluate(windows, t, id, engram, response_quality, prediction_error, now) ==
    IF id \notin DOMAIN windows \/ ~IsOpen(windows[id], now)
    THEN [mods |-> NoMods, windows |-> windows, totals |-> t]
    ELSE LET mods == Modifications(engram, response_quality, prediction_error)
         IN  [mods |-> mods,
              windows |-> [windows EXCEPT
                             ![id].strengthened = @ \/ mods.kind = "strengthen",
                             ![id].weakened = @ \/ mods.kind = "weaken"],
              totals |-> Counted(t, mods.kind)]

\* ReconsolidationEngine.open_window
open_window(id) ==
    LET r == OpenWindow(active_windows, totals, id, clock)
    IN  /\ totals.opened < MaxOpened
        /\ active_windows' = r.windows
        /\ totals' = r.totals
        /\ UNCHANGED <<clock, engrams, last_mods, evals>>

\* ReconsolidationEngine.evaluate_and_modify
evaluate_and_modify(id, response_quality, prediction_error) ==
    LET r == Evaluate(active_windows, totals, id, engrams[id],
                      response_quality, prediction_error, clock)
    IN  /\ evals < MaxEvals
        /\ evals' = evals + 1
        /\ last_mods' = r.mods
        /\ active_windows' = r.windows
        /\ totals' = r.totals
        /\ UNCHANGED <<clock, engrams>>

\* ReconsolidationEngine.get_stats: close_expired_windows
get_stats ==
    /\ active_windows' =
          MapDel(active_windows,
                 {id \in DOMAIN active_windows : ~IsOpen(active_windows[id], clock)})
    /\ UNCHANGED <<clock, totals, engrams, last_mods, evals>>

\* time passes: d seconds, up to the time limit
ClockAdvanceBy(d, limit) ==
    /\ clock + d <= limit
    /\ clock' = clock + d
    /\ UNCHANGED <<active_windows, totals, engrams, last_mods, evals>>

ClockAdvance == ClockAdvanceBy(ClockTick, MaxClock)

\* an Abstraction as the reconsolidation code sees it
Engram(q, c, d, i) ==
    [quality_score |-> q, consistency_score |-> c, decay_score |-> d,
     integrity_score |-> i, verification_history |-> 0]

\* ReconsolidationEngine.__init__, and the engrams the caller holds
InitRecon(es) ==
    /\ clock = 0
    /\ active_windows = <<>>
    /\ totals = [opened |-> 0, strengthened |-> 0, updated |-> 0, weakened |-> 0]
    /\ engrams = es
    /\ last_mods = NoMods
    /\ evals = 0


\* ---------------------------------------------------------- ImpasseDetector
\* priorities are in tenths

Queries == {"what is it", "what is the force"}

\* ImpasseDetector._infer_domain
infer_domain(query) == IF query = "what is the force" THEN "physics" ELSE "general"

\* the contexts detect is called with: a rejected input, nothing retrieved,
\* a failed proof without axioms, a failed proof with axioms, low confidence,
\* and a good answer
Contexts ==
    { [gate_confidence |-> 3, engrams_found |-> 1, proven |-> None, axioms |-> FALSE, confidence |-> 10],
      [gate_confidence |-> 9, engrams_found |-> 0, proven |-> None, axioms |-> FALSE, confidence |-> 10],
      [gate_confidence |-> 9, engrams_found |-> 1, proven |-> "false", axioms |-> FALSE, confidence |-> 10],
      [gate_confidence |-> 9, engrams_found |-> 1, proven |-> "false", axioms |-> TRUE, confidence |-> 10],
      [gate_confidence |-> 9, engrams_found |-> 1, proven |-> None, axioms |-> FALSE, confidence |-> 1],
      [gate_confidence |-> 9, engrams_found |-> 1, proven |-> "true", axioms |-> TRUE, confidence |-> 9] }

\* the contexts the detector is driven with
DetectContexts == {c \in Contexts : c.engrams_found = 0 \/ c.confidence < 10}

NoImpasse == [impasse_type |-> None, domain |-> None, priority |-> 0,
              created_at |-> 0, attempts |-> 0, query |-> None]

Impasse(type, domain, priority, query, now) ==
    [impasse_type |-> type, domain |-> domain, priority |-> priority,
     created_at |-> now, attempts |-> 0, query |-> query]

\* detect: the impasse built from the context, if any
Classify(query, context, now) ==
    IF context.gate_confidence < 4
    THEN Impasse("gate_rejected", "general", 3, query, now)
    ELSE IF context.engrams_found = 0
    THEN Impasse("no_engrams", infer_domain(query), 7, query, now)
    ELSE IF context.proven = "false"
    THEN IF ~context.axioms
         THEN Impasse("no_axioms", infer_domain(query), 8, query, now)
         ELSE Impasse("proof_failed", infer_domain(query), 6, query, now)
    ELSE IF context.confidence < 3
    THEN Impasse("low_confidence", infer_domain(query), 5, query, now)
    ELSE NoImpasse

\* the positions in active of the impasses with the type and domain of imp
SameKind(act, imp) ==
    {k \in 1..Len(act) : /\ act[k].impasse_type = imp.impasse_type
                         /\ act[k].domain = imp.domain}

\* ImpasseDetector._is_duplicate
IsDuplicate(act, imp, now) ==
    \E k \in SameKind(act, imp) : act[k].created_at > now - DuplicateSpan

\* ImpasseDetector._find_duplicate: the first impasse of the same type and domain
FindDuplicate(act, imp) ==
    IF SameKind(act, imp) = {} THEN 0
    ELSE CHOOSE k \in SameKind(act, imp) : \A j \in SameKind(act, imp) : k <= j

\* ImpasseDetector.detect: active after the call
Detected(act, imp, now) ==
    IF imp = NoImpasse THEN act
    ELSE IF ~IsDuplicate(act, imp, now) THEN Append(act, imp)
    ELSE LET k == FindDuplicate(act, imp)
         IN  [act EXCEPT ![k].attempts = @ + 1,
                         ![k].priority = Min(10, @ + 1)]

\* ImpasseDetector.detect
detect(query, context) ==
    LET imp == Classify(query, context, clock)
        isnew == imp # NoImpasse /\ ~IsDuplicate(active, imp, clock)
    IN  /\ detects < MaxDetects
        /\ detects' = detects + 1
        /\ active' = Detected(active, imp, clock)
        /\ itotals' = IF isnew THEN [itotals EXCEPT !.created = @ + 1] ELSE itotals
        /\ created' = IF isnew
                      THEN Append(created, [impasse_type |-> imp.impasse_type,
                                            domain |-> imp.domain, at |-> clock])
                      ELSE created
        /\ UNCHANGED resolved_history

\* CompetitionResult.proof_data of a result, as the detector reads it: only
\* the symbolic paths attach one
ProofData(w) ==
    CASE w.path = "symbolic" -> [proven |-> "true", axioms |-> TRUE]
      [] w.path = "symbolic_failed" -> [proven |-> "false", axioms |-> FALSE]
      [] OTHER -> [proven |-> None, axioms |-> FALSE]

\* gate confidences of an input the gate lets through, in tenths: a failed
\* translation (0.3, no clarification asked) and a clean one
GateConfidences == {3, 9}

\* process_query: the context handed to impasse_detector.detect
ImpasseContext(winner, retrieved, gate_confidence) ==
    [gate_confidence |-> gate_confidence, engrams_found |-> Len(retrieved),
     proven |-> ProofData(winner).proven, axioms |-> ProofData(winner).axioms,
     confidence |-> winner.confidence \div 1000]

\* process_query after the loop: winner = best_winner; post-processing reads
\* winner.confidence, which raises AttributeError on None; the impasse
\* detector is called for a winner below 0.5; return winner.content
PqPost ==
    /\ ppc = "post"
    /\ IF best_winner = NoWinner
       THEN ppc' = "raised" /\ UNCHANGED <<response, ivars>>
       ELSE /\ ppc' = "done"
            /\ response' = best_winner.content
            /\ IF best_winner.confidence < 5000
               THEN \E query \in Queries, gate_confidence \in GateConfidences :
                       LET imp == Classify(query,
                                           ImpasseContext(best_winner, all_relevant_abs,
                                                          gate_confidence),
                                           clock)
                           isnew == imp # NoImpasse /\ ~IsDuplicate(active, imp, clock)
                       IN  /\ detects' = detects + 1
                           /\ active' = Detected(active, imp, clock)
                           /\ itotals' = IF isnew THEN [itotals EXCEPT !.created = @ + 1]
                                         ELSE itotals
                           /\ created' = IF isnew
                                         THEN Append(created,
                                                     [impasse_type |-> imp.impasse_type,
                                                      domain |-> imp.domain, at |-> clock])
                                         ELSE created
                           /\ UNCHANGED resolved_history
               ELSE UNCHANGED ivars
    /\ UNCHANGED <<attempt, relevant_abs, fast_result, guard, best_winner,
                   best_confidence, all_relevant_abs, cycles>>
    /\ UNCHANGED <<mvars, hvars, avars, rvars, svars, wvars, fvars, gvars, cvars>>

\* list.remove(x): drop the element at position k
RemoveAt(q, k) == SubSeq(q, 1, k - 1) \o SubSeq(q, k + 1, Len(q))

\* Impasse.__post_init__: the id is made of the creation second and the query
ImpasseId(imp) == <<imp.created_at, imp.query>>

\* ImpasseDetector.resolve: the first active impasse with this id
resolve(impasse_id) ==
    LET hits == {k \in 1..Len(active) : ImpasseId(active[k]) = impasse_id}
    IN  IF hits = {}
        THEN UNCHANGED ivars
        ELSE LET k == CHOOSE x \in hits : \A y \in hits : x <= y
             IN  /\ active' = RemoveAt(active, k)
                 /\ resolved_history' = Append(resolved_history, active[k])
                 /\ itotals' = [itotals EXCEPT !.resolved = @ + 1]
                 /\ UNCHANGED <<created, detects>>

\* ImpasseDetector.__init__
InitImpasse ==
    /\ active = <<>>
    /\ resolved_history = <<>>
    /\ itotals = [created |-> 0, resolved |-> 0]
    /\ created = <<>>
    /\ detects = 0


\* ------------------------------ EngramStorage, AbstractionManager, GraphManager

\* the contents of the stored engrams, and one that is new
Contents == {"x", "y", "z", "w"}

\* Abstraction.update_hash: the MD5 digest of the content
ContentHash(content) == <<"md5", content>>

\* a row of the abstractions table
Row(content, cluster_id, quality_score, usage_count) ==
    [version |-> 1, content |-> content, embedding_hash |-> ContentHash(content),
     cluster_id |-> cluster_id, quality_score |-> quality_score,
     decay_score |-> 0, usage_count |-> usage_count]

NoReturn == [op |-> None, value |-> None, raised |-> FALSE]

\* the INSERT OR REPLACE of add_abstraction: it lists InsertValues values for
\* a table of TableColumns columns
SqliteInsert(rs, id, row) ==
    IF InsertValues = TableColumns
    THEN [rows |-> MapPut(rs, id, row), raised |-> FALSE]
    ELSE [rows |-> rs, raised |-> TRUE]

\* EngramStorage.add_abstraction: the vector is upserted, then the row
add_abstraction(st, id, row) ==
    LET ins == SqliteInsert(st.rows, id, row)
    IN  [rows |-> ins.rows, links |-> st.links,
         chroma |-> MapPut(st.chroma, id, row.content), raised |-> ins.raised]

\* EngramStorage.get_abstraction_by_hash: the ids of the rows with this hash
ByHash(rs, h) == {id \in DOMAIN rs : rs[id].embedding_hash = h}

\* AbstractionManager.create_abstraction with the id uuid4() draws
create_abstraction(content, newid) ==
    LET found == ByHash(rows, ContentHash(content))
    IN  /\ sops < MaxStoreOps
        /\ sops' = sops + 1
        /\ newid \notin DOMAIN rows \cup DOMAIN chroma
        /\ IF found # {}
           THEN /\ \E id \in found : sret' = [op |-> "create", value |-> id, raised |-> FALSE]
                /\ UNCHANGED <<rows, links, chroma>>
           ELSE LET st == add_abstraction([rows |-> rows, links |-> links, chroma |-> chroma],
                                          newid, Row(content, None, 0, 0))
                IN  /\ rows' = st.rows
                    /\ links' = st.links
                    /\ chroma' = st.chroma
                    /\ sret' = [op |-> "create",
                                value |-> IF st.raised THEN None ELSE newid,
                                raised |-> st.raised]
        /\ UNCHANGED <<dpc, decay_ids, cluster_counts>>

\* AbstractionManager.update_abstraction
Updated(st, id, content) ==
    IF id \notin DOMAIN st.rows
    THEN [rows |-> st.rows, links |-> st.links, chroma |-> st.chroma,
          raised |-> FALSE, value |-> None]
    ELSE LET row == [st.rows[id] EXCEPT !.content = content,
                                        !.embedding_hash = ContentHash(content),
                                        !.version = @ + 1]
             out == add_abstraction(st, id, row)
         IN  [rows |-> out.rows, links |-> out.links, chroma |-> out.chroma,
              raised |-> out.raised,
              value |-> IF out.raised THEN None ELSE id]

\* AbstractionManager.update_abstraction called by a client
update_abstraction(id, content) ==
    /\ sops < MaxStoreOps
    /\ sops' = sops + 1
    /\ LET out == Updated([rows |-> rows, links |-> links, chroma |-> chroma],
                          id, content)
       IN  /\ rows' = out.rows
           /\ links' = out.links
           /\ chroma' = out.chroma
           /\ sret' = [op |-> "update", value |-> out.value, raised |-> out.raised]
    /\ UNCHANGED <<dpc, decay_ids, cluster_counts>>

\* GraphManager.add_link
add_link(source_id, target_id) ==
    /\ sops < MaxStoreOps
    /\ sops' = sops + 1
    /\ IF source_id \notin DOMAIN rows \/ target_id \notin DOMAIN rows
       THEN /\ sret' = [op |-> "add_link", value |-> FALSE, raised |-> FALSE]
            /\ UNCHANGED links
       ELSE /\ sret' = [op |-> "add_link", value |-> TRUE, raised |-> FALSE]
            /\ links' = links \cup {<<source_id, target_id>>}
    /\ UNCHANGED <<rows, chroma, dpc, decay_ids, cluster_counts>>

\* EngramStorage.delete_abstraction: the store without the engrams of gone
Deleted(st, gone) ==
    [rows |-> MapDel(st.rows, gone),
     links |-> {l \in st.links : l[1] \notin gone /\ l[2] \notin gone},
     chroma |-> MapDel(st.chroma, gone)]

\* EngramStorage.delete_abstraction
delete_abstraction(id) ==
    LET st == Deleted([rows |-> rows, links |-> links, chroma |-> chroma], {id})
    IN  /\ sops < MaxStoreOps
        /\ sops' = sops + 1
        /\ rows' = st.rows
        /\ links' = st.links
        /\ chroma' = st.chroma
        /\ sret' = [op |-> "delete", value |-> id, raised |-> FALSE]
        /\ UNCHANGED <<dpc, decay_ids, cluster_counts>>

\* the SELECT of prune_orphans: low quality, no link in either direction
Orphans(rs, ls, min_quality) ==
    {id \in DOMAIN rs : /\ rs[id].quality_score < min_quality
                        /\ \A l \in ls : l[1] # id /\ l[2] # id}

\* EngramStorage.prune_orphans, as called by AwakeEngine._dream
prune_orphans(min_quality) ==
    LET gone == Orphans(rows, links, min_quality)
        st == Deleted([rows |-> rows, links |-> links, chroma |-> chroma], gone)
    IN  /\ sops < MaxStoreOps
        /\ sops' = sops + 1
        /\ rows' = st.rows
        /\ links' = st.links
        /\ chroma' = st.chroma
        /\ sret' = [op |-> "prune_orphans", value |-> Cardinality(gone), raised |-> FALSE]
        /\ UNCHANGED <<dpc, decay_ids, cluster_counts>>

\* the orders in which a SELECT can return the elements of S
Orders(S) ==
    {q \in SeqsUpTo(S, Cardinality(S)) :
        Len(q) = Cardinality(S) /\ \A i, j \in 1..Len(q) : q[i] = q[j] => i = j}

\* DecaySystem._get_cluster_counts
ClusterCounts(rs) ==
    [k \in {rs[id].cluster_id : id \in DOMAIN rs} \ {None} |->
        Cardinality({id \in DOMAIN rs : rs[id].cluster_id = k})]

\* cluster_counts.get(k, default)
CountGet(counts, k, default) == IF k \in DOMAIN counts THEN counts[k] ELSE default

\* DecaySystem._should_prune
should_prune(row, counts) ==
    IF row.cluster_id # None /\ CountGet(counts, row.cluster_id, 0) <= 1 THEN FALSE
    ELSE \/ row.decay_score > FastDecay /\ row.usage_count < 2
         \/ row.decay_score > HardDecay

\* DecaySystem.run_decay_cycle up to the loop
DecayBegin ==
    /\ sops < MaxStoreOps
    /\ sops' = sops + 1
    /\ dpc = "idle"
    /\ dpc' = "loop"
    /\ decay_ids' \in Orders(DOMAIN rows)
    /\ cluster_counts' = ClusterCounts(rows)
    /\ sret' = [op |-> "decay", value |-> 0, raised |-> FALSE]
    /\ UNCHANGED <<rows, links, chroma>>

\* DecaySystem.run_decay_cycle: one iteration of the loop, the engram having
\* decayed to new_decay by now; _prune deletes the vector and the row
DecayVisit(new_decay) ==
    /\ dpc = "loop"
    /\ decay_ids # <<>>
    /\ LET id == Head(decay_ids)
       IN  /\ decay_ids' = Tail(decay_ids)
           /\ IF id \notin DOMAIN rows
              THEN UNCHANGED <<rows, chroma, cluster_counts, sret>>
              ELSE LET row == [rows[id] EXCEPT !.decay_score = new_decay]
                   IN  IF should_prune(row, cluster_counts)
                       THEN /\ chroma' = MapDel(chroma, {id})
                            /\ rows' = MapDel(rows, {id})
                            /\ cluster_counts' =
                                  IF row.cluster_id # None
                                  THEN MapPut(cluster_counts, row.cluster_id,
                                              CountGet(cluster_counts, row.cluster_id, 1) - 1)
                                  ELSE cluster_counts
                            /\ sret' = [op |-> "decay_prune", value |-> id, raised |-> FALSE]
                       ELSE /\ rows' = [rows EXCEPT ![id] = row]
                            /\ sret' = [op |-> "decay_keep", value |-> id, raised |-> FALSE]
                            /\ UNCHANGED <<chroma, cluster_counts>>
    /\ UNCHANGED <<links, dpc, sops>>

\* DecaySystem.run_decay_cycle returns
DecayEnd ==
    /\ dpc = "loop"
    /\ decay_ids = <<>>
    /\ dpc' = "idle"
    /\ UNCHANGED <<rows, links, chroma, sret, decay_ids, cluster_counts, sops>>

\* EngramStorage over a database holding the rows rs and the links ls
InitStore(rs, ls) ==
    /\ rows = rs
    /\ links = ls
    /\ chroma = [id \in DOMAIN rs |-> rs[id].content]
    /\ sret = NoReturn
    /\ dpc = "idle"
    /\ decay_ids = <<>>
    /\ cluster_counts = <<>>
    /\ sops = 0

\* the components outside market, heartbeat, engine and query, as constructed
\* ------------------------------------------------------------ WorkingMemory
\* relevance, quality and rerank scores in thousandths, time in seconds

\* MemoryItem as update builds it: added_at = time.time(), access_count = 1
MemoryItem(engram_id, relevance, quality, now) ==
    [engram_id |-> engram_id, relevance |-> relevance, quality |-> quality,
     added_at |-> now, access_count |-> 1]

\* MemoryItem.priority times 3,000,000:
\*   relevance * 0.4 + quality * 0.3 + recency * 0.2 + min(access_count / 10, 1) * 0.1
\*   with recency = max(0, 1 - (now - added_at) / 300)
priority(item, now) ==
      item.relevance * 4 * RecencySpan
    + item.quality * 3 * RecencySpan
    + Max(0, 1000 * RecencySpan - (now - item.added_at) * 1000) * 2
    + Min(item.access_count * 100, 1000) * RecencySpan

\* WorkingMemory._find: the position of the first item of that engram, or 0
find(its, engram_id) ==
    IF \E k \in 1..Len(its) : its[k].engram_id = engram_id
    THEN CHOOSE k \in 1..Len(its) :
            /\ its[k].engram_id = engram_id
            /\ \A j \in 1..(k - 1) : its[j].engram_id # engram_id
    ELSE 0

LowestIsFirst(its, now) == 1

\* min(self.items, key=lambda x: x.priority): the first item of minimal priority
Lowest(its, now) ==
    CHOOSE k \in 1..Len(its) :
        /\ \A j \in 1..Len(its) : priority(its[k], now) <= priority(its[j], now)
        /\ \A j \in 1..(k - 1) : priority(its[j], now) > priority(its[k], now)

\* self.items.remove(lowest): the first item equal to it goes
RemoveFirst(its, x) ==
    RemoveAt(its, CHOOSE k \in 1..Len(its) :
                     /\ its[k] = x
                     /\ \A j \in 1..(k - 1) : its[j] # x)

\* WorkingMemory._insert on the pair <<items, totals>>
insert(its, tot, cap, item, now) ==
    LET full == Len(its) >= cap
        kept == IF full THEN RemoveFirst(its, its[Lowest(its, now)]) ELSE its
    IN  [items |-> Append(kept, item),
         totals |-> [tot EXCEPT !.insertions = @ + 1,
                                !.evictions = @ + (IF full THEN 1 ELSE 0)]]

\* getattr(engram, '_rerank_score', default)
RerankScore(engram, default) == IF engram.reranked THEN engram.rerank ELSE default

\* relevance = max(0, min(1.0, (rerank + 5) / 10))
Relevance(engram) == Max(0, Min(1000, (RerankScore(engram, 0) + 5000) \div 10))

\* WorkingMemory.update, entry
update_begin(retrieved_engrams, min_relevance) ==
    /\ wpc = "idle"
    /\ wpc' = "loop"
    /\ wpending' = retrieved_engrams
    /\ wmin' = min_relevance
    /\ new_items' = <<>>
    /\ wupdates' = wupdates + 1
    /\ UNCHANGED <<capacity, items, wtotals>>

\* WorkingMemory.update, one iteration of its loop
update_visit ==
    /\ wpc = "loop"
    /\ wpending # <<>>
    /\ LET engram == Head(wpending)
           k == find(items, engram.id)
       IN  IF k > 0
           THEN /\ items' = [items EXCEPT
                               ![k].access_count = @ + 1,
                               ![k].relevance = Max(@, RerankScore(engram, 500))]
                /\ wtotals' = [wtotals EXCEPT !.accesses = @ + 1]
                /\ UNCHANGED new_items
           ELSE IF Relevance(engram) < wmin /\ engram.quality_score < 600
           THEN UNCHANGED <<items, wtotals, new_items>>
           ELSE LET item == MemoryItem(engram.id, Relevance(engram),
                                       engram.quality_score, clock)
                    out == insert(items, wtotals, capacity, item, clock)
                IN  /\ items' = out.items
                    /\ wtotals' = out.totals
                    /\ new_items' = Append(new_items, item)
    /\ wpending' = Tail(wpending)
    /\ UNCHANGED <<capacity, wpc, wmin, wupdates>>

\* WorkingMemory.update, return new_items
update_return ==
    /\ wpc = "loop"
    /\ wpending = <<>>
    /\ wpc' = "idle"
    /\ wmin' = 300
    /\ UNCHANGED <<capacity, items, wtotals, wpending, new_items, wupdates>>

\* WorkingMemory.prime
prime(engram_id) ==
    /\ wpc = "idle"
    /\ LET k == find(items, engram_id)
       IN  items' = IF k = 0 THEN items
                    ELSE [items EXCEPT ![k].relevance = 1000,
                                       ![k].access_count = @ + 3,
                                       ![k].added_at = clock]
    /\ UNCHANGED <<capacity, wtotals, wpc, wpending, wmin, new_items, wupdates>>

\* WorkingMemory.clear
clear ==
    /\ wpc = "idle"
    /\ items' = <<>>
    /\ UNCHANGED <<capacity, wtotals, wpc, wpending, wmin, new_items, wupdates>>

\* WorkingMemory.__init__
InitWorkingMemory(cap) ==
    /\ capacity = cap
    /\ items = <<>>
    /\ wtotals = [insertions |-> 0, evictions |-> 0, accesses |-> 0]
    /\ wpc = "idle"
    /\ wpending = <<>>
    /\ wmin = 300
    /\ new_items = <<>>
    /\ wupdates = 0

\* --------------------------------------------- EngramPipeline user feedback
\* the arguments the two handlers pass to evaluate_and_modify
FeedbackQuality(kind) == IF kind = "helpful" THEN 950 ELSE 100
FeedbackError(kind) == IF kind = "helpful" THEN 50 ELSE 900

\* engram.content of the engrams of the last query
ContentOf(id) == IF id = "eng_1" THEN "x" ELSE "y"

\* the text of the last query
LastQueryText == "what is the force"

\* min(1.0, integrity_score + 0.05) and max(0.0, integrity_score - 0.25)
Integrity(kind, integrity_score) ==
    IF kind = "helpful" THEN Min(1000, integrity_score + IntegrityBoost)
    ELSE Max(0, integrity_score - IntegritySlash)

\* the body of "if mods:" up to the call of update_abstraction
Applied(kind, engram, mods) ==
    [engram EXCEPT
        !.quality_score = mods.quality_score,
        !.decay_score = IF kind = "wrong" THEN mods.decay_score ELSE @,
        !.integrity_score = Integrity(kind, @),
        !.verification_history = @ + 1]

\* user_feedback_helpful / user_feedback_wrong, entry
feedback_begin(kind) ==
    /\ fpc = "idle"
    /\ fcalls' = fcalls + 1
    /\ IF last_query_engrams = <<>>
       THEN UNCHANGED <<fpc, fstage, fqueue, fcount>>
       ELSE /\ fpc' = kind
            /\ fstage' = "open"
            /\ fqueue' = last_query_engrams
            /\ fcount' = 0
    /\ UNCHANGED <<last_query_engrams, rvars, ivars, svars>>

\* the loop body, first statement: reconsolidation.open_window(engram.id, ...)
feedback_open ==
    /\ fpc # "idle"
    /\ fstage = "open"
    /\ fqueue # <<>>
    /\ LET r == OpenWindow(active_windows, totals, Head(fqueue), clock)
       IN  /\ active_windows' = r.windows
           /\ totals' = r.totals
    /\ fstage' = "evaluate"
    /\ UNCHANGED <<clock, engrams, last_mods, evals, ivars, svars,
                   last_query_engrams, fpc, fqueue, fcount, fcalls>>

\* the loop body, from evaluate_and_modify to its end; elapsed is the time
\* that has passed since open_window read the clock
feedback_evaluate(elapsed) ==
    /\ fpc # "idle"
    /\ fstage = "evaluate"
    /\ LET id == Head(fqueue)
           r == Evaluate(active_windows, totals, id, engrams[id],
                         FeedbackQuality(fpc), FeedbackError(fpc), clock + elapsed)
           out == Updated([rows |-> rows, links |-> links, chroma |-> chroma],
                          id, ContentOf(id))
       IN  /\ active_windows' = r.windows
           /\ totals' = r.totals
           /\ last_mods' = r.mods
           /\ IF r.mods = NoMods
              THEN UNCHANGED <<engrams, svars, fcount>>
              ELSE /\ engrams' = [engrams EXCEPT ![id] = Applied(fpc, @, r.mods)]
                   /\ rows' = out.rows
                   /\ links' = out.links
                   /\ chroma' = out.chroma
                   /\ sret' = [op |-> "update", value |-> out.value,
                               raised |-> out.raised]
                   /\ fcount' = IF out.raised THEN fcount ELSE fcount + 1
                   /\ UNCHANGED <<dpc, decay_ids, cluster_counts, sops>>
    /\ clock' = clock + elapsed
    /\ fqueue' = Tail(fqueue)
    /\ fstage' = "open"
    /\ UNCHANGED <<evals, ivars, last_query_engrams, fpc, fcalls>>

\* the context user_feedback_wrong hands to the impasse detector
WrongContext ==
    [gate_confidence |-> 9, engrams_found |-> Len(last_query_engrams),
     proven |-> None, axioms |-> FALSE, confidence |-> 1]

\* after the loop: user_feedback_wrong calls impasse_detector.detect; return
feedback_return ==
    /\ fpc # "idle"
    /\ fstage = "open"
    /\ fqueue = <<>>
    /\ IF fpc = "wrong"
       THEN detect(LastQueryText, WrongContext)
       ELSE UNCHANGED ivars
    /\ fpc' = "idle"
    /\ UNCHANGED <<rvars, svars, last_query_engrams, fstage, fqueue, fcount, fcalls>>

\* the pipeline before any feedback, holding the engrams of its last query
InitFeedback(ids) ==
    /\ last_query_engrams = ids
    /\ fpc = "idle"
    /\ fstage = "open"
    /\ fqueue = <<>>
    /\ fcount = 0
    /\ fcalls = 0

\* ------------------------- what the awake engine and the pipeline write back
\* a row of the abstractions table with the columns these handlers touch
StoredEngram(content, quality_score, consistency_score, decay_score) ==
    [version |-> 1, content |-> content, embedding_hash |-> ContentHash(content),
     cluster_id |-> "k1", quality_score |-> quality_score,
     decay_score |-> decay_score, usage_count |-> 0,
     consistency_score |-> consistency_score, is_axiom_derived |-> FALSE,
     proof_id |-> None]

\* EngramStorage.get_abstraction: the object built from a row
Loaded(row) == Engram(row.quality_score, row.consistency_score, row.decay_score, 500)

\* _find_weak_abstractions: the stored engrams of low quality or low
\* consistency (the store holds fewer rows than the limit of 3)
WeakRows(rs) ==
    {id \in DOMAIN rs : \/ rs[id].quality_score < UncertaintyThreshold
                        \/ rs[id].consistency_score < ConsistencyThreshold}

\* AwakeEngine._idle_scan: the scan, whose candidates the engine then holds
find_weak_abstractions ==
    /\ scanned' = WeakRows(rows)
    /\ engrams' = [id \in DOMAIN engrams |->
                     IF id \in WeakRows(rows) THEN Loaded(rows[id]) ELSE engrams[id]]
    /\ gret' = [op |-> "scan", raised |-> FALSE]
    /\ UNCHANGED <<proof_of, proofs_generated, gops>>
    /\ UNCHANGED <<clock, active_windows, totals, last_mods, evals, svars>>

\* the id and the content of the proof engram bridge.axiom_to_engram builds
ProofId(id) == IF id = "eng_1" THEN "proof_1" ELSE "proof_2"
ProofContent(id) == IF id = "eng_1" THEN "z" ELSE "w"

\* AwakeEngine._focused_reasoning on the engram abs_obj it has popped
focused_reasoning(id, proposition, proven) ==
    LET st == [rows |-> rows, links |-> links, chroma |-> chroma]
        \* the proof engram is stored inside try / except
        stored == IF proposition /\ proven
                  THEN add_abstraction(st, ProofId(id),
                                       StoredEngram(ProofContent(id), 900, 1000, 0))
                  ELSE [rows |-> rows, links |-> links, chroma |-> chroma,
                        raised |-> FALSE]
        out == Updated([rows |-> stored.rows, links |-> stored.links,
                        chroma |-> stored.chroma], id, ContentOf(id))
    IN  /\ gops < MaxWrites
        /\ gops' = gops + 1
        /\ id \in scanned
        /\ IF ~proposition
           THEN /\ engrams' = [engrams EXCEPT ![id].consistency_score = NoProposition]
                /\ gret' = [op |-> "focused", raised |-> FALSE]
                /\ UNCHANGED <<proof_of, proofs_generated, rows, links, chroma>>
           ELSE /\ engrams' = [engrams EXCEPT ![id].consistency_score =
                                 IF proven THEN 1000
                                 ELSE Max(ProofFloor, @ - ProofPenalty)]
                /\ proof_of' = IF proven THEN [proof_of EXCEPT ![id] = ProofId(id)]
                               ELSE proof_of
                /\ rows' = out.rows
                /\ links' = out.links
                /\ chroma' = out.chroma
                /\ proofs_generated' = IF proven /\ ~out.raised
                                       THEN proofs_generated + 1
                                       ELSE proofs_generated
                /\ gret' = [op |-> "focused", raised |-> out.raised]
        /\ UNCHANGED <<scanned, sret, dpc, decay_ids, cluster_counts, sops>>
        /\ UNCHANGED <<clock, active_windows, totals, last_mods, evals>>

\* core.quality.calculate_quality_score reads columns that are not modelled:
\* record_usage may store any of these values
QualityLevels == {300, 700}

\* AbstractionManager.record_usage: the row after update_metrics
Recorded(rs, id, quality_score) ==
    IF id \notin DOMAIN rs THEN rs
    ELSE [rs EXCEPT ![id].usage_count = @ + 1, ![id].quality_score = quality_score]

\* EngramPipeline.process_query for one retrieved engram: the window opened at
\* retrieval, the post-deliberation reconsolidation and record_usage
post_deliberation(id, response_quality, prediction_error, quality_score) ==
    LET engram == Loaded(rows[id])
        w == OpenWindow(active_windows, totals, id, clock)
        r == Evaluate(w.windows, w.totals, id, engram, response_quality,
                      prediction_error, clock)
        numeric == r.mods.kind \in {"strengthen", "weaken"}
        out == IF numeric
               THEN Updated([rows |-> rows, links |-> links, chroma |-> chroma],
                            id, rows[id].content)
               ELSE [rows |-> rows, links |-> links, chroma |-> chroma,
                     raised |-> FALSE, value |-> None]
    IN  /\ gops < MaxWrites
        /\ gops' = gops + 1
        /\ id \in DOMAIN rows
        /\ active_windows' = r.windows
        /\ totals' = r.totals
        /\ last_mods' = r.mods
        /\ rows' = Recorded(out.rows, id, quality_score)
        /\ links' = out.links
        /\ chroma' = out.chroma
        /\ gret' = [op |-> "query", raised |-> out.raised]
        /\ UNCHANGED <<proof_of, proofs_generated, scanned>>
        /\ UNCHANGED <<clock, engrams, evals, sret, dpc, decay_ids,
                       cluster_counts, sops>>

\* the awake engine before it has proved anything
InitWrites ==
    /\ proof_of = [id \in EngramIds |-> None]
    /\ proofs_generated = 0
    /\ scanned = {}
    /\ gret = [op |-> None, raised |-> FALSE]
    /\ gops = 0

\* ------------------------------------------- create_abstraction, per thread
Threads == {"t1", "t2"}

NoCall == [pc |-> "idle", content |-> None, id |-> None, value |-> None,
           created |-> FALSE, raised |-> FALSE]

\* AbstractionManager.create_abstraction up to the duplicate check: the hash
\* lookup, and the new object with the id uuid4() draws
create_lookup(t, content, newid) ==
    LET found == ByHash(rows, ContentHash(content))
    IN  /\ creators[t].pc = "idle"
        /\ newid \notin DOMAIN rows \cup DOMAIN chroma
        /\ \A u \in Threads : creators[u].id # newid
        /\ IF found # {}
           THEN \E id \in found :
                   creators' = [creators EXCEPT ![t] =
                                   [pc |-> "done", content |-> content, id |-> None,
                                    value |-> id, created |-> FALSE, raised |-> FALSE]]
           ELSE creators' = [creators EXCEPT ![t] =
                                [NoCall EXCEPT !.pc = "persist", !.content = content,
                                               !.id = newid]]
        /\ UNCHANGED svars

\* AbstractionManager.create_abstraction from step 5: storage.add_abstraction
create_persist(t) ==
    LET c == creators[t]
        st == add_abstraction([rows |-> rows, links |-> links, chroma |-> chroma],
                              c.id, Row(c.content, None, 0, 0))
    IN  /\ c.pc = "persist"
        /\ rows' = st.rows
        /\ links' = st.links
        /\ chroma' = st.chroma
        /\ creators' = [creators EXCEPT ![t].pc = "done",
                                        ![t].value = IF st.raised THEN None ELSE c.id,
                                        ![t].created = ~st.raised,
                                        ![t].raised = st.raised]
        /\ UNCHANGED <<sret, dpc, decay_ids, cluster_counts, sops>>

\* no client thread is inside create_abstraction
InitCreators == creators = [t \in Threads |-> NoCall]

InitExtras ==
    /\ InitRecon([id \in EngramIds |-> Engram(500, 600, 100, 500)])
    /\ InitImpasse
    /\ InitStore(<<>>, {})
    /\ InitWorkingMemory(PipelineCapacity)
    /\ InitFeedback(<<>>)
    /\ InitWrites
    /\ InitCreators

\* ------------------------------------------------------------ market harness
\* The market driven directly through its public operations, as the unit tests
\* of tests/test_economy.py and tests/test_laissez_faire.py drive it.

Bid(a, r, amt, v) == [agent_id |-> a, resource |-> r, amount |-> amt, value |-> v]

\* 12 = 1 credit, 600 = 50 credits, 18000 = 1500 credits
BidPool ==
    { Bid(AWAKE, "POWER_LEASE", 60, 12),
      Bid(AGENT_B, "COMPUTE_RPM", 10, 600),
      Bid(AGENT_B, "COMPUTE_RPM", 10, 18000) }


BidLists == SeqsUpTo(BidPool, MaxBids)
InitialCredits == {1200}
TransferAmounts == {-12, 360}
ProposalPool ==
    { [agent_id |-> AWAKE, amount |-> -6000, utility |-> 0],
      [agent_id |-> AWAKE, amount |-> 1200, utility |-> 2400],
      [agent_id |-> AGENT_B, amount |-> 1200, utility |-> 0],
      [agent_id |-> GHOST, amount |-> 1200, utility |-> 2400] }

\* InternalMarket.__init__ with the wallets w registered so far
MarketAfterInit(w) ==
    /\ wallets = w
    /\ power_lease = NoLease
    /\ energy_level = 100
    /\ pending_grants = <<>>
    /\ seeking_level = 500
    /\ target_level = 500
    /\ mpc = "ready"
    /\ dt = 0
    /\ new_credits = 0
    /\ bids = <<>>
    /\ result = NoResult
    /\ ticks = 0
    /\ hist = FALSE

\* Heartbeat.__init__, AwakeEngine.__init__ and an idle pipeline
InitCore ==
    /\ hpc = "sleep"
    /\ hsub = "start"
    /\ tick_count = 0
    /\ halted = FALSE
    /\ error_window = <<>>
    /\ history = <<>>
    /\ snap = [low_consistency_count |-> 0, errors_total |-> 0]
    /\ errors_total = 0
    /\ burst = <<>>
    /\ order = <<>>
    /\ recv = 0
    /\ mode = SLEEPING
    /\ running = FALSE
    /\ allocation = NoAllocation
    /\ workload_queue = <<>>
    /\ lock = None
    /\ apc = "init"
    /\ abs_obj = None
    /\ candidates = <<>>
    /\ filtered = <<>>
    /\ consistency_checks = 0
    /\ stepped = [kind |-> "none", low |-> FALSE]
    /\ owed = 0
    /\ cycle_count = 0
    /\ InitQuery

\* everything outside the market, as constructed
InitOthers == InitCore /\ InitExtras

\* a fresh market with no agent registered; heartbeat and engine not started
InitMarket ==
    /\ MarketAfterInit(<<>>)
    /\ InitOthers
    /\ store = [low |-> 0, weak |-> <<>>]

\* everything outside the market
others == <<hvars, avars, pvars, xvars>>

RegisterStep == \E a \in Agents, c \in InitialCredits :
                    register_agent(a, c) /\ UNCHANGED others
TransferStep == \E s \in Agents, r \in Agents \cup {GHOST}, m \in TransferAmounts :
                    transfer_credits(s, r, m) /\ UNCHANGED others
ProposalStep == \E p \in ProposalPool :
                    submit_proposal(p.agent_id, p.amount, p.utility) /\ UNCHANGED others
BeginStep == \E bl \in BidLists, d \in Dts :
                 ticks < MaxTicks /\ RunAuctionBegin(bl, d) /\ UNCHANGED others
MintStep == AuctionMint /\ UNCHANGED others
GrantsStep == AuctionGrants /\ UNCHANGED others
ClearStep == AuctionClear /\ UNCHANGED others

NextMarket ==
    \/ RegisterStep
    \/ TransferStep
    \/ ProposalStep
    \/ BeginStep
    \/ MintStep
    \/ GrantsStep
    \/ ClearStep

\* the market alone, driven through its public operations
SpecMarket == InitMarket /\ [][NextMarket]_vars

StoreConfigs ==
    { [low |-> 0, weak |-> <<>>],
      [low |-> 6, weak |-> <<"e1", "e2">>] }

\* the pipeline after construction: awake_engine registered with 100 credits
\* (AwakeEngine.set_market), heartbeat and awake threads about to start
InitBrain ==
    /\ MarketAfterInit([a \in {AWAKE} |-> 1200])
    /\ InitOthers
    /\ store \in StoreConfigs

Next ==
    \/ HbCollect
    \/ HbStore
    \/ HbBreaker
    \/ HbMetacogCheck
    \/ HbBurst
    \/ HbListeners
    \/ HbBids
    \/ HbRunAuction
    \/ MintStep
    \/ GrantsStep
    \/ ClearStep
    \/ HbDistribute
    \/ AwakeStart
    \/ AwakeLoop
    \/ AwakeEnergyCheck
    \/ AwakeDispatch
    \/ AwakeIdleFind
    \/ AwakeIdleExtend
    \/ AwakeReaperRead
    \/ AwakeReaperWrite
    \/ AwakeThinkPop
    \/ AwakeThinkWork
    \/ AwakeFocusPop
    \/ AwakeFocusWork
    \/ AwakeDream
    \/ AwakeAdjust

\* heartbeat thread and awake thread over the shared market and engine
Spec == InitBrain /\ [][Next]_vars

\* ---------------------------------------------------- engine with a backlog

\* a backlog of n items mixing the hour-old e1 with the fresh e2 and e3
Backlog(n, p) ==
    [i \in 1..n |-> IF i % 3 = p THEN "e1" ELSE IF i % 3 = (p + 1) % 3 THEN "e2"
                    ELSE "e3"]

BacklogLengths == (PruneCap - 1)..(PruneCap + OverCap)

\* the engine running in THINKING or FOCUSED with a backlog around the hard cap,
\* the heartbeat not ticking
InitBacklog ==
    /\ MarketAfterInit([a \in {AWAKE} |-> 1200])
    /\ hpc = "sleep"
    /\ hsub = "start"
    /\ tick_count = 0
    /\ halted = FALSE
    /\ error_window = <<>>
    /\ history = <<>>
    /\ snap = [low_consistency_count |-> 0, errors_total |-> 0]
    /\ errors_total = 0
    /\ burst = <<>>
    /\ order = <<>>
    /\ recv = 0
    /\ mode \in {THINKING, FOCUSED}
    /\ running = TRUE
    /\ allocation = [resource |-> "POWER_LEASE", amount |-> 60]
    /\ \E n \in BacklogLengths, p \in 0..2 : workload_queue = Backlog(n, p)
    /\ lock = None
    /\ apc = "loop"
    /\ abs_obj = None
    /\ candidates = <<>>
    /\ filtered = <<>>
    /\ consistency_checks = 0
    /\ stepped = [kind |-> "none", low |-> FALSE]
    /\ owed = Len(workload_queue)
    /\ cycle_count = 0
    /\ InitQuery
    /\ InitExtras
    /\ store = [low |-> 0, weak |-> <<>>]

NextBacklog ==
    \/ AwakeLoop
    \/ AwakeEnergyCheck
    \/ AwakeDispatch
    \/ AwakeThinkPop
    \/ AwakeThinkWork
    \/ AwakeFocusPop
    \/ AwakeFocusWork
    \/ AwakeAdjust

\* the awake thread alone, working through a backlog
SpecBacklog == InitBacklog /\ [][NextBacklog]_vars

\* ------------------------------------------------------- one query at a time

InitPipeline ==
    /\ MarketAfterInit([a \in {AWAKE} |-> 1200])
    /\ InitOthers
    /\ store = [low |-> 0, weak |-> <<>>]

NextPipeline ==
    \/ PqGate
    \/ PqRetrieve
    \/ PqFast
    \/ PqCompete
    \/ PqPost

\* one process_query call on a pipeline whose engines are idle
SpecPipeline == InitPipeline /\ [][NextPipeline]_vars

\* ------------------------------------------------- market with unusual bids

\* bids that over-ask, carry a non-positive amount or value, or ask for a
\* memory slot
OddBidPool ==
    { Bid(AWAKE, "POWER_LEASE", 60, 12),
      Bid(AGENT_B, "COMPUTE_RPM", 100, 12),
      Bid(AGENT_B, "COMPUTE_RPM", 0, 18000),
      Bid(AWAKE, "MEMORY_SLOT", 1, -12),
      Bid(AGENT_B, "MEMORY_SLOT", 1, 12) }

OddBidLists == SeqsUpTo(OddBidPool, MaxBids)

OddBeginStep == \E bl \in OddBidLists, d \in Dts :
                    ticks < MaxTicks /\ RunAuctionBegin(bl, d) /\ UNCHANGED others

NextOddBids ==
    \/ RegisterStep
    \/ OddBeginStep
    \/ MintStep
    \/ GrantsStep
    \/ ClearStep

\* the market alone, given lists of unusual bids
SpecOddBids == InitMarket /\ [][NextOddBids]_vars

\* ------------------------------------------ reconsolidation and feedback

ResponseQualities == {100, 700, 900, 950}
PredictionErrors == {100, 300, 700, 900}

\* engrams fresh, near the upper clamps and near the lower clamps
EngramStates ==
    { Engram(500, 600, 100, 500),
      Engram(990, 995, 980, 980),
      Engram(50, 20, 0, 100) }

InitReconsolidation ==
    /\ MarketAfterInit(<<>>)
    /\ InitCore
    /\ store = [low |-> 0, weak |-> <<>>]
    /\ \E es \in [EngramIds -> EngramStates] : InitRecon(es)
    /\ InitImpasse
    /\ InitStore(<<>>, {})
    /\ InitWorkingMemory(PipelineCapacity)
    /\ InitFeedback(<<>>)
    /\ InitWrites
    /\ InitCreators

outside_recon == <<mvars, hvars, avars, pvars, ivars, svars, wvars, fvars, gvars, cvars>>

OpenStep == \E id \in EngramIds : open_window(id) /\ UNCHANGED outside_recon
EvaluateStep == \E id \in EngramIds, rq \in ResponseQualities, pe \in PredictionErrors :
                    evaluate_and_modify(id, rq, pe) /\ UNCHANGED outside_recon
StatsStep == get_stats /\ UNCHANGED outside_recon
ClockStep == ClockAdvance /\ UNCHANGED outside_recon

NextReconsolidation ==
    \/ OpenStep
    \/ EvaluateStep
    \/ StatsStep
    \/ ClockStep

\* the reconsolidation engine called by a client, with time passing
SpecReconsolidation == InitReconsolidation /\ [][NextReconsolidation]_vars

\* ------------------------------------------------------- impasse detection

InitImpasses ==
    /\ MarketAfterInit(<<>>)
    /\ InitOthers
    /\ store = [low |-> 0, weak |-> <<>>]

outside_impasse == <<mvars, hvars, avars, pvars, wvars, fvars, gvars, cvars>>

DetectStep == \E q \in Queries, c \in DetectContexts :
                  detect(q, c) /\ UNCHANGED <<outside_impasse, rvars, svars>>
ResolveStep == \E k \in 1..Len(active) :
                   resolve(ImpasseId(active[k])) /\ UNCHANGED <<outside_impasse, rvars, svars>>
HalfHourStep == ClockAdvanceBy(HalfHour, MaxHours) /\ UNCHANGED <<outside_impasse, ivars, svars>>

NextImpasses ==
    \/ DetectStep
    \/ ResolveStep
    \/ HalfHourStep

\* the impasse detector called by a client over two hours
SpecImpasses == InitImpasses /\ [][NextImpasses]_vars

\* ------------------------------------------------------------ engram store

StoreIds == {"a", "b", "c"}
NewIds == {"n1", "n2"}
DecayLevels == {100, 850}

\* a database with two engrams in cluster k1 and the only engram of cluster
\* k2, of quality q, and the links ls
StoredRows(q) ==
    [id \in StoreIds |->
        CASE id = "a" -> Row("x", "k1", 300, 0)
          [] id = "b" -> Row("y", "k1", 900, 5)
          [] OTHER -> Row("z", "k2", q, 0)]

InitEngramStore ==
    /\ MarketAfterInit(<<>>)
    /\ InitCore
    /\ store = [low |-> 0, weak |-> <<>>]
    /\ InitRecon([id \in EngramIds |-> Engram(500, 600, 100, 500)])
    /\ InitImpasse
    /\ InitWorkingMemory(PipelineCapacity)
    /\ InitFeedback(<<>>)
    /\ InitWrites
    /\ InitCreators
    /\ \E q \in {300, 900}, ls \in SUBSET {<<"a", "b">>, <<"b", "c">>} :
          InitStore(StoredRows(q), ls)

outside_store == <<mvars, hvars, avars, pvars, rvars, ivars, wvars, fvars, gvars, cvars>>

CreateStep == \E c \in {"x", "w"}, n \in NewIds :
                  create_abstraction(c, n) /\ UNCHANGED outside_store
UpdateStep == \E id \in StoreIds, c \in {"x", "w"} :
                  update_abstraction(id, c) /\ UNCHANGED outside_store
LinkStep == \E s \in StoreIds, t \in StoreIds \cup NewIds :
                s # t /\ add_link(s, t) /\ UNCHANGED outside_store
DeleteStep == \E id \in StoreIds : delete_abstraction(id) /\ UNCHANGED outside_store
DreamPruneStep == prune_orphans(DreamMinQuality) /\ UNCHANGED outside_store
DecayBeginStep == DecayBegin /\ UNCHANGED outside_store
DecayVisitStep == \E d \in DecayLevels : DecayVisit(d) /\ UNCHANGED outside_store
DecayEndStep == DecayEnd /\ UNCHANGED outside_store

NextEngramStore ==
    \/ CreateStep
    \/ UpdateStep
    \/ LinkStep
    \/ DeleteStep
    \/ DreamPruneStep
    \/ DecayBeginStep
    \/ DecayVisitStep
    \/ DecayEndStep

\* the store used by ingest, refinement, linking, dreaming and maintenance
SpecEngramStore == InitEngramStore /\ [][NextEngramStore]_vars

\* ----------------------------------------------------------- working memory
Retrieved(id, quality_score, reranked, rerank) ==
    [id |-> id, quality_score |-> quality_score, reranked |-> reranked,
     rerank |-> rerank]

\* what search hands to update: engrams with or without a rerank score
RetrievedPool ==
    { Retrieved("w1", 900, TRUE, 5000),
      Retrieved("w2", 500, TRUE, 0),
      Retrieved("w3", 100, TRUE, -5000),
      Retrieved("w4", 700, FALSE, 0) }

RetrievedLists == SeqsUpTo(RetrievedPool, MaxRetrieved)
MinRelevances == {0, 300}
FocusIds == {r.id : r \in RetrievedPool}

InitFocus ==
    /\ MarketAfterInit(<<>>)
    /\ InitCore
    /\ store = [low |-> 0, weak |-> <<>>]
    /\ InitRecon([id \in EngramIds |-> Engram(500, 600, 100, 500)])
    /\ InitImpasse
    /\ InitStore(<<>>, {})
    /\ \E cap \in 1..MaxCapacity : InitWorkingMemory(cap)
    /\ InitFeedback(<<>>)
    /\ InitWrites
    /\ InitCreators

outside_focus == <<mvars, hvars, avars, pvars, ivars, svars, fvars, gvars, cvars>>

UpdateBeginStep == \E l \in RetrievedLists, m \in MinRelevances :
                       /\ wupdates < MaxUpdates
                       /\ update_begin(l, m)
                       /\ UNCHANGED <<outside_focus, rvars>>
UpdateVisitStep == update_visit /\ UNCHANGED <<outside_focus, rvars>>
UpdateReturnStep == update_return /\ UNCHANGED <<outside_focus, rvars>>
PrimeStep == \E id \in FocusIds :
                 /\ \E k \in 1..Len(items) :
                       items[k].engram_id = id /\ items[k].access_count < MaxAccess
                 /\ prime(id)
                 /\ UNCHANGED <<outside_focus, rvars>>
ForgetStep == clear /\ items # <<>> /\ UNCHANGED <<outside_focus, rvars>>
FocusClockStep == /\ wpc = "idle"
                  /\ ClockAdvanceBy(FocusTick, FocusSpan)
                  /\ UNCHANGED <<outside_focus, wvars>>

NextFocus ==
    \/ UpdateBeginStep
    \/ UpdateVisitStep
    \/ UpdateReturnStep
    \/ PrimeStep
    \/ ForgetStep
    \/ FocusClockStep

\* working memory updated by successive queries, with time passing
SpecWorkingMemory == InitFocus /\ [][NextFocus]_vars

\* ------------------------------------------------------------ user feedback
FeedbackKinds == {"helpful", "wrong"}
IntegrityLevels == {200, 980}
LastQueries == {<<>>, <<"eng_1">>, <<"eng_1", "eng_2">>}
FeedbackRows == [id \in EngramIds |-> Row(ContentOf(id), "k1", 500, 1)]

InitFeedbackSpec ==
    /\ MarketAfterInit(<<>>)
    /\ InitCore
    /\ store = [low |-> 0, weak |-> <<>>]
    /\ \E i1, i2 \in IntegrityLevels :
          InitRecon([id \in EngramIds |->
                        Engram(500, 600, 100, IF id = "eng_1" THEN i1 ELSE i2)])
    /\ InitImpasse
    /\ InitStore(FeedbackRows, {})
    /\ InitWorkingMemory(PipelineCapacity)
    /\ \E ids \in LastQueries : InitFeedback(ids)
    /\ InitWrites
    /\ InitCreators

outside_feedback == <<mvars, hvars, avars, pvars, wvars, gvars, cvars>>

FeedbackBeginStep == \E kind \in FeedbackKinds :
                         /\ fcalls < MaxFeedback
                         /\ detects < MaxDetects
                         /\ feedback_begin(kind)
                         /\ UNCHANGED outside_feedback
FeedbackOpenStep == feedback_open /\ UNCHANGED outside_feedback
FeedbackEvaluateStep == \E elapsed \in {0, Moment} :
                            /\ clock + elapsed <= MaxClock
                            /\ feedback_evaluate(elapsed)
                            /\ UNCHANGED outside_feedback
FeedbackReturnStep == feedback_return /\ UNCHANGED outside_feedback
\* between two calls the user waits
Pauses == {ClockTick, WindowDuration - Moment}

FeedbackClockStep == /\ fpc = "idle"
                     /\ \E d \in Pauses : ClockAdvanceBy(d, MaxClock)
                     /\ UNCHANGED <<outside_feedback, ivars, svars, fvars>>

NextFeedback ==
    \/ FeedbackBeginStep
    \/ FeedbackOpenStep
    \/ FeedbackEvaluateStep
    \/ FeedbackReturnStep
    \/ FeedbackClockStep

\* the user rating the last answer several times, with time passing
SpecFeedback == InitFeedbackSpec /\ [][NextFeedback]_vars

\* ------------------------------------------------- engine stopped at any time
ShortQueues == {<<>>, <<"e1">>, <<"e2", "e3">>}

\* the engine running with an allocation, the heartbeat not ticking
InitShutdown ==
    /\ MarketAfterInit([a \in {AWAKE} |-> 1200])
    /\ hpc = "sleep"
    /\ hsub = "start"
    /\ tick_count = 0
    /\ halted = FALSE
    /\ error_window = <<>>
    /\ history = <<>>
    /\ snap = [low_consistency_count |-> 0, errors_total |-> 0]
    /\ errors_total = 0
    /\ burst = <<>>
    /\ order = <<>>
    /\ recv = 0
    /\ mode \in {IDLE, THINKING, FOCUSED}
    /\ running = TRUE
    /\ allocation = [resource |-> "COMPUTE_RPM", amount |-> 30]
    /\ workload_queue \in ShortQueues
    /\ lock = None
    /\ apc = "loop"
    /\ abs_obj = None
    /\ candidates = <<>>
    /\ filtered = <<>>
    /\ consistency_checks = 0
    /\ stepped = [kind |-> "none", low |-> FALSE]
    /\ owed = Len(workload_queue)
    /\ cycle_count = 0
    /\ InitQuery
    /\ InitExtras
    /\ store \in StoreConfigs

NextShutdown ==
    \/ AwakeLoop
    \/ AwakeEnergyCheck
    \/ AwakeDispatch
    \/ AwakeIdleFind
    \/ AwakeIdleExtend
    \/ AwakeReaperRead
    \/ AwakeReaperWrite
    \/ AwakeThinkPop
    \/ AwakeThinkWork
    \/ AwakeFocusPop
    \/ AwakeFocusWork
    \/ AwakeAdjust
    \/ stop

\* the awake thread at work while another thread calls stop()
SpecShutdown == InitShutdown /\ [][NextShutdown]_vars

\* ------------------------------------------------------------ writing back
ConsistencyLevels == {400, 700, 900}

InitWriteBack ==
    /\ MarketAfterInit(<<>>)
    /\ InitCore
    /\ store = [low |-> 0, weak |-> <<>>]
    /\ InitImpasse
    /\ InitWorkingMemory(PipelineCapacity)
    /\ InitFeedback(<<>>)
    /\ InitWrites
    /\ InitCreators
    /\ \E c1, c2 \in ConsistencyLevels :
          LET rs == [id \in EngramIds |->
                        StoredEngram(ContentOf(id), 700,
                                     IF id = "eng_1" THEN c1 ELSE c2, 100)]
          IN  /\ InitStore(rs, {})
              /\ InitRecon([id \in EngramIds |-> Loaded(rs[id])])

outside_writes == <<mvars, hvars, avars, pvars, ivars, wvars, fvars, cvars>>

ScanStep == find_weak_abstractions /\ UNCHANGED outside_writes
FocusedStep == \E id \in EngramIds, proposition, proven \in BOOLEAN :
                   focused_reasoning(id, proposition, proven)
                   /\ UNCHANGED outside_writes
PostStep == \E id \in EngramIds, rq \in ResponseQualities,
               pe \in PredictionErrors, q \in QualityLevels :
                post_deliberation(id, rq, pe, q) /\ UNCHANGED outside_writes

NextWriteBack ==
    \/ ScanStep
    \/ FocusedStep
    \/ PostStep

\* proofs, reconsolidation and usage written back to a populated store
SpecWriteBack == InitWriteBack /\ [][NextWriteBack]_vars

\* ------------------------------------------------------ concurrent ingest
InitIngest ==
    /\ MarketAfterInit(<<>>)
    /\ InitCore
    /\ store = [low |-> 0, weak |-> <<>>]
    /\ InitRecon([id \in EngramIds |-> Engram(500, 600, 100, 500)])
    /\ InitImpasse
    /\ InitWorkingMemory(PipelineCapacity)
    /\ InitFeedback(<<>>)
    /\ InitWrites
    /\ InitCreators
    /\ \E q \in {300, 900}, ls \in SUBSET {<<"a", "b">>, <<"b", "c">>} :
          InitStore(StoredRows(q), ls)

outside_ingest == <<mvars, hvars, avars, pvars, rvars, ivars, wvars, fvars, gvars>>

LookupStep == \E t \in Threads, c \in {"x", "w"}, n \in NewIds :
                  create_lookup(t, c, n) /\ UNCHANGED outside_ingest
PersistStep == \E t \in Threads : create_persist(t) /\ UNCHANGED outside_ingest

NextIngest ==
    \/ LookupStep
    \/ PersistStep

\* two client threads, each ingesting one text
SpecIngest == InitIngest /\ [][NextIngest]_vars

\* ------------------------------------------------ the auction of one tick

\* backlogs around the bailout size: mixed ones, and one of weak engrams only
BidBacklogs ==
    {Backlog(n, p) : n \in 50..52, p \in 0..2} \cup {[i \in 1..51 |-> "e1"]}

\* a lease that runs out before this auction, and one that does not
EarlierLeases ==
    { NoLease,
      [agent_id |-> AWAKE, remaining |-> 1, cost |-> 60],
      [agent_id |-> AWAKE, remaining |-> 2 * LongDt, cost |-> 60] }

\* the heartbeat about to collect the bids of a tick, the engine holding a backlog
InitBidding ==
    /\ wallets = [a \in {AWAKE} |-> 0]
    /\ power_lease \in EarlierLeases
    /\ energy_level \in {10, LowBattery, 100}
    /\ pending_grants = <<>>
    /\ seeking_level \in {0, 300, 1000}
    /\ target_level \in {300, 1000}
    /\ mpc = "ready"
    /\ dt = 0
    /\ new_credits = 0
    /\ bids = <<>>
    /\ result = NoResult
    /\ ticks = 0
    /\ hist = FALSE
    /\ hpc = "auction"
    /\ hsub = "start"
    /\ tick_count = 1
    /\ halted = FALSE
    /\ error_window = <<>>
    /\ history = <<>>
    /\ snap = [low_consistency_count |-> 0, errors_total |-> 0]
    /\ errors_total = 0
    /\ burst = <<>>
    /\ order = SubSeq(TickOrder, 1, 5)
    /\ recv = 0
    /\ mode \in {IDLE, THINKING}
    /\ running = TRUE
    /\ allocation = NoAllocation
    /\ workload_queue \in BidBacklogs
    /\ lock = None
    /\ apc = "loop"
    /\ abs_obj = None
    /\ candidates = <<>>
    /\ filtered = <<>>
    /\ consistency_checks = 0
    /\ stepped = [kind |-> "none", low |-> FALSE]
    /\ owed = Len(workload_queue)
    /\ cycle_count = 0
    /\ InitQuery
    /\ InitExtras
    /\ store = [low |-> 0, weak |-> <<>>]

NextBidding ==
    \/ HbBids
    \/ HbRunAuction
    \/ MintStep
    \/ GrantsStep
    \/ ClearStep
    \/ HbDistribute

\* one auction of the heartbeat with the awake engine as the only bidder
SpecBidding == InitBidding /\ [][NextBidding]_vars

\* ------------------------------------------- heartbeat and engine, for ever

\* _tick from its start through the circuit breaker, for a tick that reports
\* no new error; the tick counter saturates at MaxCounted and the two deques
\* keep their last entries only
LiveBeat ==
    /\ hpc = "sleep"
    /\ tick_count' = Min(tick_count + 1, MaxCounted)
    /\ snap' = [low_consistency_count |-> store.low, errors_total |-> errors_total]
    /\ history' = AppendMax(history, snap', MaxCounted + 1)
    /\ error_window' = AppendMax(error_window, ErrorsThisTick(snap', history),
                                 MaxCounted)
    /\ order' = <<"collect", "store", "breaker">>
    /\ recv' = 0
    /\ hpc' = StepAfter("breaker")
    /\ UNCHANGED <<hsub, halted, errors_total, burst>>
    /\ UNCHANGED <<mvars, avars, pvars, xvars>>

\* run_auction steps 3-5, the counter of completed auctions saturating
LiveClear ==
    /\ mpc = "granted"
    /\ LET out == ClearOutcome
       IN  /\ power_lease' = out.lease
           /\ wallets' = out.w
           /\ energy_level' = out.energy
           /\ result' = out.result
    /\ ticks' = Min(ticks + 1, MaxCounted)
    /\ mpc' = "ready"
    /\ UNCHANGED <<pending_grants, seeking_level, target_level, dt, new_credits,
                   bids, hist>>
    /\ UNCHANGED others

\* start(): while self.running: if allocation amount > 0: self._step(), the
\* cycle counter saturating
LiveLoop ==
    /\ apc = "loop"
    /\ running
    /\ allocation.amount > 0
    /\ apc' = "energy"
    /\ cycle_count' = Min(cycle_count + 1, MaxCounted)
    /\ UNCHANGED <<mode, running, allocation, workload_queue, lock, abs_obj,
                   candidates, filtered, consistency_checks, stepped, owed,
                   store>>
    /\ UNCHANGED <<mvars, hvars, pvars, xvars>>

\* the pipeline started on a store whose one weak engram needs refinement only
InitLive ==
    /\ MarketAfterInit([a \in {AWAKE} |-> 1200])
    /\ InitOthers
    /\ store = [low |-> 0, weak |-> <<"e2">>]

\* the steps of the heartbeat thread
HeartbeatThread ==
    \/ LiveBeat
    \/ HbMetacogCheck
    \/ HbListeners
    \/ HbBids
    \/ HbRunAuction
    \/ MintStep
    \/ GrantsStep
    \/ LiveClear
    \/ HbDistribute

\* the steps of the awake thread
AwakeThread ==
    \/ AwakeStart
    \/ LiveLoop
    \/ AwakeEnergyCheck
    \/ AwakeDispatch
    \/ AwakeIdleFind
    \/ AwakeIdleExtend
    \/ AwakeReaperRead
    \/ AwakeReaperWrite
    \/ AwakeThinkPop
    \/ AwakeThinkWork
    \/ AwakeAdjust

NextLive ==
    \/ HeartbeatThread
    \/ AwakeThread

\* both daemon threads run for ever: each sleeps a bounded time between steps
\* (at most 1 s for the heartbeat, at most 1 / min_hz for the engine) and is
\* then scheduled, which is weak fairness of each thread and nothing more
SpecLive ==
    /\ InitLive
    /\ [][NextLive]_vars
    /\ WF_vars(HeartbeatThread)
    /\ WF_vars(AwakeThread)

\* ------------------------------------------------------------------ claims

\* a run_auction call returns in this step
AuctionReturns == mpc = "granted" /\ mpc' = "ready"

\* the lease the auction finds installed and unexpired
LeaseInForce == power_lease # NoLease /\ power_lease.remaining > 0

InterruptThreshold == InterruptFactor * power_lease.cost

MatchesBid(alloc, b) ==
    /\ alloc.winner = b.agent_id
    /\ alloc.resource = b.resource
    /\ alloc.amount = b.amount

\* C1: after any run_auction call every wallet is >= 0, except the wallet of
\* the agent that won an interrupt-class bid in that tick.
C1_WalletsNonNegative ==
    (mpc = "ready" /\ ticks > 0) =>
        \A a \in DOMAIN wallets :
            \/ wallets[a] >= 0
            \/ result.path = "interrupt" /\ result.allocs[1].winner = a

\* C2: between the reset and the grants of a tick every registered wallet is
\* exactly 0, and right after the UBI every wallet holds the equal share of the
\* credits minted in this tick and nothing of what it held before.
C2_EphemeralReset ==
    /\ mpc = "reset" => \A a \in DOMAIN wallets : wallets[a] = 0
    /\ mpc = "minted" =>
          \A a \in DOMAIN wallets :
              wallets[a] = new_credits \div Cardinality(DOMAIN wallets)

\* C2 witness: a tick after the first has reset wallets that held credits.
C2_Witness ==
    /\ mpc = "reset"
    /\ ticks > 0
    /\ hist
    /\ DOMAIN wallets = Agents

\* C3: with an unexpired lease installed, a run_auction call allocates only to
\* bids of value > 50 x lease.cost, leaves the wallet of every agent without
\* such a bid untouched, and, when no bid exceeds the threshold, answers with
\* the lease holder and keeps the lease as it is.
C3_LeaseRejectsLowBids ==
    [][ (AuctionReturns /\ LeaseInForce) =>
          /\ result'.path \in {"lease_held", "interrupt"}
          /\ result'.path = "interrupt" =>
                \A i \in 1..Len(result'.allocs) :
                    \E j \in 1..Len(bids) :
                        /\ bids[j].value > InterruptThreshold
                        /\ MatchesBid(result'.allocs[i], bids[j])
          /\ \A a \in DOMAIN wallets :
                (\A j \in 1..Len(bids) :
                    bids[j].agent_id = a => bids[j].value <= InterruptThreshold)
                => wallets'[a] = wallets[a]
          /\ (\A j \in 1..Len(bids) : bids[j].value <= InterruptThreshold) =>
                /\ power_lease' = power_lease
                /\ result'.path = "lease_held"
                /\ Len(result'.allocs) = 1
                /\ result'.allocs[1].winner = power_lease.agent_id
                /\ result'.allocs[1].amount = 0
      ]_vars

\* C3 witness: the auction has just answered "lease held" to a valid bid whose
\* value equals the threshold 50 x lease.cost.
C3_Witness ==
    /\ mpc = "ready"
    /\ result.path = "lease_held"
    /\ LeaseInForce
    /\ \E j \in 1..Len(bids) :
          /\ bids[j].amount > 0
          /\ bids[j].value = InterruptThreshold

\* C4: with an unexpired lease of cost c and a bid of value v > 50c, run_auction
\* clears the lease and returns exactly one allocation, to the highest such
\* bid, with cost v x 10 when energy_level < 20 and v otherwise.
C4_InterruptAllocation ==
    [][ (/\ AuctionReturns
         /\ LeaseInForce
         /\ \E j \in 1..Len(bids) : bids[j].value > InterruptThreshold) =>
          /\ power_lease' = NoLease
          /\ Len(result'.allocs) = 1
          /\ \E j \in 1..Len(bids) :
                /\ bids[j].value > InterruptThreshold
                /\ \A k \in 1..Len(bids) : bids[k].value <= bids[j].value
                /\ MatchesBid(result'.allocs[1], bids[j])
                /\ result'.allocs[1].cost =
                      bids[j].value * (IF energy_level < LowBattery
                                       THEN SurgeMultiplier ELSE 1)
      ]_vars

\* C5: the winner of an interrupt is charged for it: in the interrupt tick its
\* wallet is debited by the interrupt cost.
C5_InterruptWinnerCharged ==
    [][ (AuctionReturns /\ result'.path = "interrupt") =>
          LET win == result'.allocs[1]
          IN  win.winner \in DOMAIN wallets =>
                  wallets'[win.winner] = wallets[win.winner] - win.cost
      ]_vars

\* a heartbeat tick has run to its end
TickDone == hpc = "sleep" /\ tick_count > 0

IsPrefix(p, q) == Len(p) <= Len(q) /\ SubSeq(q, 1, Len(p)) = p

Before(q, x, y) ==
    \A j \in 1..Len(q) : q[j] = y => \E i \in 1..(j - 1) : q[i] = x

C7_ReceiveOncePerTick ==
    /\ TickDone => recv = 1
    /\ recv > 0 => (hpc = "sleep" /\ order[Len(order)] = "auction")

\* C8: once the circuit breaker has halted the engine, its mode is SLEEPING
\* whenever a tick completes, in the tick of the trip and in every later one.
C8_HaltedStaysSleeping ==
    (halted /\ TickDone) => mode = SLEEPING

\* C9: a step executed while energy_level < 20 is a DREAMING step, and the mode
\* leaves DREAMING only to IDLE with energy_level > 80 or to SLEEPING by stop();
\* an allocation received in between does not end the dream.
C9_DreamOverrides ==
    [][ /\ (apc = "dispatch" /\ energy_level < LowBattery) => apc' \in {"dream", "adjust"}
        /\ (mode = DREAMING /\ mode' # DREAMING) =>
              \/ mode' = IDLE /\ energy_level > 80
              \/ mode' = SLEEPING /\ ~running'
      ]_vars

\* C10: under any interleaving of the two threads no enqueued item is lost:
\* whenever the engine's mutex is free the queue holds exactly the items
\* enqueued and not yet popped, reaped or pruned.
C10_NoItemLost ==
    lock = None => Len(workload_queue) = owed

C12_PruneOnEntry ==
    [][ (/\ apc \in {"think", "focus"}
         /\ apc' \in {"think_work", "focus_work"}) =>
          LET n == Len(workload_queue)
              kept == IF n > PruneCap THEN (n * 9) \div 10 ELSE n
          IN  /\ Len(workload_queue') + 1 = kept
              /\ workload_queue' = SubSeq(SortByUrgency(workload_queue), 2, kept)
      ]_vars

\* the query passed the gate and its deliberation loop is over
LoopOver == ppc \in {"post", "done", "raised"} /\ response.kind # "rephrase"

CycleConfident(c) == c.winner.confidence >= 5000 /\ c.error < 30

\* C13: a query that passes the gate runs the competition at least once and at
\* most MAX_DELIBERATIONS = 3 times, stops after the first cycle whose winner
\* has confidence >= 0.5 and error magnitude < 0.3, and then goes through
\* post-processing to its return without raising.
C13_BoundedDeliberation ==
    /\ Len(cycles) <= 3
    /\ \A i \in 1..(Len(cycles) - 1) : ~CycleConfident(cycles[i])
    /\ ppc \in {"retrieve", "fast", "compete"} =>
          /\ Len(cycles) = attempt
          /\ \A i \in 1..Len(cycles) : ~CycleConfident(cycles[i])
    /\ LoopOver =>
          /\ Len(cycles) >= 1
          /\ Len(cycles) = 3 \/ CycleConfident(cycles[Len(cycles)])
    /\ ppc # "raised"

\* C13 witness: the first cycle was already confident and the query returned
\* after exactly one competition.
C13_Witness ==
    /\ ppc = "done"
    /\ Len(cycles) = 1
    /\ CycleConfident(cycles[1])

C15_LlmFailureForcesHonesty ==
    /\ ppc # "raised"
    /\ (ppc = "done" /\ \E i \in 1..Len(cycles) : cycles[i].llm = "failed") =>
          response.kind = "honest"

\* C16: an unsafe retrieved set (risk >= 0.45, the empty set with risk 1.0
\* included) makes the fast path return the forced-honest text with confidence
\* 0.2 without calling the LLM; a safe set forces nothing; is_safe and the
\* forcing decision agree for every retrieved set.
C16_TruthGuardConsistent ==
    ppc = "compete" =>
        /\ guard.is_safe <=> ~guard.forced
        /\ guard.is_safe <=> guard.risk < 4500
        /\ relevant_abs = <<>> => (guard.risk = 10000 /\ ~guard.is_safe)
        /\ ~guard.is_safe =>
              /\ fast_result.content.kind = "honest"
              /\ fast_result.confidence = 2000
              /\ guard.llm = "none"
        /\ guard.is_safe =>
              /\ fast_result.content.kind \in {"llm", "canned"}
              /\ guard.llm # "none"

\* C16 witness: the fast path has answered an empty retrieved set.
C16_Witness ==
    /\ ppc = "compete"
    /\ relevant_abs = <<>>
    /\ guard.forced
    /\ fast_result.path = "fast_honest"

RECURSIVE CountResource(_, _)
CountResource(allocs, r) ==
    IF allocs = <<>> THEN 0
    ELSE (IF Head(allocs).resource = r THEN 1 ELSE 0) + CountResource(Tail(allocs), r)

\* C17: in the result of any tick the COMPUTE_RPM amounts granted sum to at
\* most 60, and at most one MEMORY_SLOT and at most one POWER_LEASE is granted.
C17_CapacityRespected ==
    (mpc = "ready" /\ ticks > 0) =>
        /\ TotalRpm(result.allocs) <= 60
        /\ CountResource(result.allocs, "MEMORY_SLOT") <= 1
        /\ CountResource(result.allocs, "POWER_LEASE") <= 1

InvalidBid(b) == b.value <= 0 \/ b.amount <= 0

\* C18: a bid with value <= 0 or amount <= 0 never wins an allocation, and a
\* list holding only such bids changes no wallet and neither installs nor
\* breaks a lease, in the standard auction and under a lease alike.
C18_InvalidBidsIgnored ==
    [][ AuctionReturns =>
          /\ \A j \in 1..Len(bids) :
                InvalidBid(bids[j]) =>
                    \A i \in 1..Len(result'.allocs) :
                        ~MatchesBid(result'.allocs[i], bids[j])
          /\ (\A j \in 1..Len(bids) : InvalidBid(bids[j])) =>
                /\ wallets' = wallets
                /\ LeaseInForce => power_lease' = power_lease
                /\ ~LeaseInForce => power_lease' = NoLease
      ]_vars

GrantsApplied == mpc = "minted" /\ mpc' = "granted"

\* utility/cost >= 2.0 - 1.5*level, in twelfths and thousandths
RatioMet(cost, utility, level) ==
    \/ cost > 0 /\ 2000 * utility >= cost * (4000 - 3 * level)
    \/ cost < 0 /\ 2000 * utility <= cost * (4000 - 3 * level)

RECURSIVE RatioGrants(_, _, _)
RatioGrants(reqs, a, level) ==
    IF reqs = <<>> THEN 0
    ELSE (IF Head(reqs).agent_id = a /\ RatioMet(Head(reqs).amount, Head(reqs).utility, level)
          THEN Head(reqs).amount ELSE 0)
         + RatioGrants(Tail(reqs), a, level)

\* C19: at each tick every pending proposal of a registered agent adds exactly
\* its cost to that agent's wallet if utility/cost >= 2.0 - 1.5*level and
\* nothing otherwise, and the pending queue is empty afterwards.
C19_GrantsByRatio ==
    [][ GrantsApplied =>
          /\ pending_grants' = <<>>
          /\ \A a \in DOMAIN wallets :
                wallets'[a] = wallets[a] + RatioGrants(pending_grants, a, seeking_level)
      ]_vars

\* C20: every market tick applies exactly one energy update, also when an
\* unexpired lease rejects all bids and when a lease is interrupted.
C20_EnergyUpdatedEveryTick ==
    [][ AuctionReturns =>
          energy_level' = MetabolicUpdate(energy_level, result'.allocs, power_lease', dt)
      ]_vars

RECURSIVE SumOver(_, _)
SumOver(w, S) ==
    IF S = {} THEN 0
    ELSE LET a == CHOOSE x \in S : TRUE
         IN  w[a] + SumOver(w, S \ {a})

SumWallets(w) == SumOver(w, DOMAIN w)

\* the conditions under which a transfer is to succeed
TransferAllowed(sender, receiver, amount) ==
    /\ amount > 0
    /\ sender \in DOMAIN wallets
    /\ receiver \in DOMAIN wallets
    /\ wallets[sender] >= amount

\* C21: transfer_credits either moves exactly amount from sender to receiver
\* (amount > 0, sender's balance >= amount, both wallets exist), or changes no
\* wallet; the sum of all wallets is unchanged and the sender is never left
\* negative by a transfer.
C21_TransferConserves ==
    [][ \A s \in Agents, r \in Agents \cup {GHOST}, m \in TransferAmounts :
          transfer_credits(s, r, m) =>
            /\ SumWallets(wallets') = SumWallets(wallets)
            /\ IF TransferAllowed(s, r, m)
               THEN /\ wallets'[s] >= 0
                    /\ s # r => /\ wallets'[s] = wallets[s] - m
                                /\ wallets'[r] = wallets[r] + m
                    /\ \A a \in DOMAIN wallets \ {s, r} : wallets'[a] = wallets[a]
               ELSE wallets' = wallets
      ]_vars

\* a transfer of 30 credits from agent_b has reached awake_engine
C21_Witness ==
    /\ ticks = 0
    /\ DOMAIN wallets = Agents
    /\ wallets[AGENT_B] = 840
    /\ wallets[AWAKE] = 1560

InRange(x) == x = -1 \/ (0 <= x /\ x <= 1000)

\* C22: evaluate_and_modify on an engram whose window is open applies exactly
\* one of strengthen / weaken / update / nothing, chosen by (response_quality,
\* prediction_error), increments exactly the matching counter and returns
\* scores within [0, 1]; quality 0.50 and consistency 0.60 with response
\* quality 0.9 and prediction error 0.1 give 0.518, 0.61 and strengthened + 1;
\* with no open window it returns nothing and changes no counter.
C22_ReconsolidationBranches ==
    [][ \A id \in EngramIds, rq \in ResponseQualities, pe \in PredictionErrors :
          evaluate_and_modify(id, rq, pe) =>
            LET open == /\ id \in DOMAIN active_windows
                        /\ clock - active_windows[id].opened_at < 30
                dS == totals'.strengthened - totals.strengthened
                dW == totals'.weakened - totals.weakened
                dU == totals'.updated - totals.updated
                kind == IF rq > 700 /\ pe < 300 THEN "strengthen"
                        ELSE IF pe > 700 THEN "weaken"
                        ELSE IF pe > 300 THEN "update" ELSE None
            IN  /\ totals'.opened = totals.opened
                /\ ~open => last_mods' = NoMods /\ totals' = totals
                /\ open =>
                     /\ last_mods'.kind = kind
                     /\ dS = (IF kind = "strengthen" THEN 1 ELSE 0)
                     /\ dW = (IF kind = "weaken" THEN 1 ELSE 0)
                     /\ dU = (IF kind = "update" THEN 1 ELSE 0)
                     /\ InRange(last_mods'.quality_score)
                     /\ InRange(last_mods'.consistency_score)
                     /\ InRange(last_mods'.decay_score)
                     /\ kind \in {"update", None} =>
                            last_mods' = [NoMods EXCEPT !.kind = kind]
                /\ ( /\ open /\ rq = 900 /\ pe = 100
                     /\ engrams[id].quality_score = 500
                     /\ engrams[id].consistency_score = 600 ) =>
                     /\ last_mods'.quality_score = 518
                     /\ last_mods'.consistency_score = 610
                     /\ dS = 1
      ]_vars

\* the strengthening of the example has been returned
C22_Witness ==
    /\ last_mods.kind = "strengthen"
    /\ last_mods.quality_score = 518
    /\ last_mods.consistency_score = 610
    /\ totals.strengthened = 1

DetectCalled == detects' = detects + 1

\* the active impasses of the type and domain of imp created less than an hour ago
RecentSameKind(imp) ==
    {k \in SameKind(active, imp) : clock - active[k].created_at < 3600}

\* C29: at most one impasse of a given (type, domain) is created within any
\* one-hour span, over any sequence of detect and resolve calls; a repeated
\* detection within the hour creates nothing and adds 1 to attempts and 0.1
\* to priority (capped at 1.0) of the existing impasse of that hour.
C29_OneImpassePerHour ==
    [][ \A q \in Queries, c \in Contexts :
          detect(q, c) =>
            LET imp == Classify(q, c, clock)
            IN  /\ Len(created') > Len(created) =>
                      \A j \in 1..Len(created) :
                          ( /\ created[j].impasse_type = imp.impasse_type
                            /\ created[j].domain = imp.domain )
                          => clock - created[j].at >= 3600
                /\ (imp # NoImpasse /\ RecentSameKind(imp) # {}) =>
                      /\ Len(active') = Len(active)
                      /\ \E k \in RecentSameKind(imp) :
                            active' = [active EXCEPT
                                         ![k].attempts = @ + 1,
                                         ![k].priority = Min(10, @ + 1)]
      ]_vars

\* C24: after any sequence of create and content-update operations no two
\* stored engrams have the same content hash, in the table and in the index.
C24_UniqueContentHash ==
    /\ \A i, j \in DOMAIN rows :
          rows[i].embedding_hash = rows[j].embedding_hash => i = j
    /\ \A i, j \in DOMAIN chroma :
          ContentHash(chroma[i]) = ContentHash(chroma[j]) => i = j

\* C25: every content update of a stored engram increases its stored version
\* by exactly 1.
C25_VersionIncrements ==
    [][ \A id \in StoreIds, c \in Contents :
          (update_abstraction(id, c) /\ id \in DOMAIN rows) =>
              /\ id \in DOMAIN rows'
              /\ rows'[id].version = rows[id].version + 1
      ]_vars

\* C26: at all times both endpoints of every stored link are in the store.
C26_LinksHaveEndpoints ==
    \A l \in links : l[1] \in DOMAIN rows /\ l[2] \in DOMAIN rows

\* C27: no pruning path, the decay cycle or the orphan pruning of DREAMING,
\* removes an engram that is the last member of a non-noise cluster.
C27_LastMemberKept ==
    [][ sret'.op \in {"prune_orphans", "decay_prune"} =>
          \A id \in DOMAIN rows \ DOMAIN rows' :
              rows[id].cluster_id \notin {None, "noise"} =>
                  \E other \in DOMAIN rows' :
                      rows'[other].cluster_id = rows[id].cluster_id
      ]_vars


LeaseGrants(allocs) == {i \in 1..Len(allocs) : allocs[i].resource = "POWER_LEASE"}

\* C30: in a tick in which a POWER_LEASE bid wins the standard auction no
\* agent other than the winner is granted COMPUTE_RPM, whatever the compute
\* bids offer, and the lease installed belongs to the winner, lasts the
\* duration it bid for and records the price it paid.
C30_LeaseExclusive ==
    [][ (AuctionReturns /\ result'.path = "standard") =>
          \A i \in LeaseGrants(result'.allocs) :
              /\ \A j \in 1..Len(result'.allocs) :
                    result'.allocs[j].resource = "COMPUTE_RPM" =>
                        result'.allocs[j].winner = result'.allocs[i].winner
              /\ power_lease' = [agent_id |-> result'.allocs[i].winner,
                                 remaining |-> result'.allocs[i].amount,
                                 cost |-> result'.allocs[i].cost]
      ]_vars

UniqueIds(its) ==
    \A j, k \in 1..Len(its) : its[j].engram_id = its[k].engram_id => j = k

Inserted == wtotals'.insertions = wtotals.insertions + 1

\* C28: working memory never holds more than capacity items nor two items of
\* the same engram, and an insertion into a full buffer removes exactly one
\* item, one whose priority at that moment is the lowest, and appends the new
\* one (capacity 1 included).
C28_BoundedFocus ==
    /\ [](Len(items) <= capacity /\ UniqueIds(items))
    /\ [][ (Inserted /\ Len(items) >= capacity) =>
             \E k \in 1..Len(items) :
                /\ \A j \in 1..Len(items) :
                      priority(items[k], clock) <= priority(items[j], clock)
                /\ items' = Append(RemoveAt(items, k), items'[Len(items')])
                /\ wtotals'.evictions = wtotals.evictions + 1
         ]_vars

C28_Witness ==
    /\ capacity = 2
    /\ wtotals.insertions = 3
    /\ wtotals.evictions = 1
    /\ Len(items) = 2
    /\ items[1].engram_id = "w1"
    /\ items[2].engram_id = "w4"

C28_WitnessOne ==
    /\ capacity = 1
    /\ wtotals.evictions = 2
    /\ Len(items) = 1

\* a feedback handler finishes its loop body for the engram at the head of fqueue
Rated(id) == fpc # "idle" /\ fstage = "evaluate" /\ fstage' = "open" /\ Head(fqueue) = id

\* C23: for each engram of the last query user_feedback_helpful raises the
\* integrity_score by 0.05 and user_feedback_wrong lowers it by 0.25, clamped
\* to [0, 1], and appends exactly one verification_history entry; every
\* integrity_score stays within [0, 1].
C23_FeedbackIntegrity ==
    /\ [](\A id \in EngramIds : (0 <= engrams[id].integrity_score /\ engrams[id].integrity_score <= 1000))
    /\ [][ \A id \in EngramIds :
              Rated(id) =>
                 /\ engrams'[id].integrity_score =
                       IF fpc = "helpful"
                       THEN Min(1000, engrams[id].integrity_score + IntegrityBoost)
                       ELSE Max(0, engrams[id].integrity_score - IntegritySlash)
                 /\ engrams'[id].verification_history =
                       engrams[id].verification_history + 1
         ]_vars

\* C34: a weaken outcome never raises quality_score: the value returned for an
\* open window is the old value minus min(0.1, 0.05 * prediction_error),
\* clamped into [0, 1], for every starting quality in [0, 1].
C34_WeakenNeverRaises ==
    [][ \A id \in EngramIds, rq \in ResponseQualities, pe \in PredictionErrors :
          (evaluate_and_modify(id, rq, pe) /\ last_mods'.kind = "weaken") =>
             /\ last_mods'.quality_score <= engrams[id].quality_score
             /\ last_mods'.quality_score =
                   Max(0, Min(1000, engrams[id].quality_score
                                      - Min(100, (pe * 50) \div 1000)))
      ]_vars

\* the loop of update visits an engram that working memory already holds
Revisited == wpc = "loop" /\ wpending # <<>> /\ find(items, Head(wpending).id) > 0
                /\ wpending' = Tail(wpending)

\* C35: every working-memory item's relevance stays within [0, 1] whatever
\* rerank scores the retrieved engrams carry, and for an engram already
\* present update raises relevance to the maximum of its current value and
\* the normalized rerank score.
C35_RelevanceInUnit ==
    /\ [](\A k \in 1..Len(items) : 0 <= items[k].relevance /\ items[k].relevance <= 1000)
    /\ [][ Revisited =>
             LET k == find(items, Head(wpending).id)
             IN  items'[k].relevance =
                    Max(items[k].relevance, Relevance(Head(wpending)))
         ]_vars

\* a step of the awake thread, which alone moves apc
AwakeThreadStep == apc' # apc

\* stop() has returned and nothing has touched the mode since
Stopped == ~running /\ mode = SLEEPING /\ apc # "init"

\* C31: once stop() has returned the awake thread never moves the mode out of
\* SLEEPING, not even by finishing a step that was in progress, and it begins
\* no new step.
C31_StopIsFinal ==
    [][ (Stopped /\ AwakeThreadStep) =>
          /\ mode' = SLEEPING
          /\ apc = "loop" => apc' = "exited"
      ]_vars


\* C32: when process_query returns, for each retrieved engram for which
\* reconsolidation returned numeric changes, the stored engram's
\* consistency_score and decay_score equal the values reconsolidation returned.
C32_ModsStored ==
    [][ \A id \in EngramIds, rq \in ResponseQualities, pe \in PredictionErrors,
           q \in QualityLevels :
          (post_deliberation(id, rq, pe, q)
             /\ last_mods'.kind \in {"strengthen", "weaken"}) =>
             /\ last_mods'.consistency_score # -1 =>
                   rows'[id].consistency_score = last_mods'.consistency_score
             /\ last_mods'.decay_score # -1 =>
                   rows'[id].decay_score = last_mods'.decay_score
      ]_vars

\* C33: after a FOCUSED step whose proof succeeds the stored engram has
\* consistency_score 1.0, is_axiom_derived true and the proof_id attached, so
\* an idle scan no longer selects it for low consistency; after a failed proof
\* the stored consistency_score is lowered by 0.2, not below 0.3.
C33_ProofStored ==
    [][ \A id \in EngramIds, proven \in BOOLEAN :
          focused_reasoning(id, TRUE, proven) =>
             IF proven
             THEN /\ rows'[id].consistency_score = 1000
                  /\ rows'[id].is_axiom_derived
                  /\ rows'[id].proof_id = ProofId(id)
                  /\ rows'[id].consistency_score >= ConsistencyThreshold
             ELSE rows'[id].consistency_score =
                     Max(ProofFloor, rows[id].consistency_score - ProofPenalty)
      ]_vars


\* C36: whenever a symbolic proof attempt fails during process_query (in the
\* cycle whose result is kept) and the query ends with best confidence below
\* 0.5, the failed proof result reaches
\* the impasse detector: an impasse is recorded for the query, and unless the
\* gate or an empty retrieval decides its type, it is NO_AXIOMS or PROOF_FAILED.
C36_ProofFailureClassified ==
    [][ ( /\ ppc = "post"
          /\ ppc' = "done"
          /\ best_winner.confidence < 5000
          /\ \E i \in 1..Len(cycles) : /\ cycles[i].symbolic = "failed"
                                         /\ cycles[i].winner = best_winner ) =>
            /\ Len(created') = Len(created) + 1
            /\ created'[Len(created')].impasse_type \in
                  {"gate_rejected", "no_engrams", "no_axioms", "proof_failed"}
      ]_vars


\* C37: duplicate detection is atomic: if two threads concurrently create
\* engrams with identical content, exactly one engram is stored and both calls
\* return that same engram.
C37_AtomicDuplicateCheck ==
    \A t, u \in Threads :
        ( /\ t # u
          /\ creators[t].pc = "done"
          /\ creators[u].pc = "done"
          /\ creators[t].content = creators[u].content ) =>
            /\ ~creators[t].raised
            /\ ~creators[u].raised
            /\ creators[t].value = creators[u].value
            /\ Cardinality(ByHash(rows, ContentHash(creators[t].content))) = 1
            /\ Cardinality({id \in DOMAIN chroma :
                               chroma[id] = creators[t].content}) = 1


\* C38: with more than 50 items queued, no unexpired lease and the awake
\* engine the only bidder, the bailout proposal is approved at every seeking
\* level, and the POWER_LEASE bid is affordable and wins in that same tick,
\* also under 10x surge pricing and with the +10 urgency value: the engine
\* receives the lease and turns FOCUSED.
C38_BacklogWinsLease ==
    [][ Len(workload_queue) > 50 =>
          /\ (mpc = "minted" /\ mpc' = "granted") =>
                wallets'[AWAKE] = wallets[AWAKE] + 60 * Len(workload_queue)
          /\ ( /\ mpc = "granted"
               /\ mpc' = "ready"
               /\ (power_lease = NoLease \/ power_lease.remaining = 0) ) =>
                /\ result'.path = "standard"
                /\ result'.allocs =
                      <<[resource |-> "POWER_LEASE", winner |-> AWAKE, amount |-> 60,
                         cost |-> bids[1].value * ScarcityMultiplier(energy_level)]>>
                /\ power_lease'.agent_id = AWAKE
                /\ wallets'[AWAKE] >= 0
          /\ ( /\ hsub = "distribute"
               /\ hpc' = "sleep"
               /\ result.path = "standard" ) =>
                /\ mode' = FOCUSED
                /\ allocation' = [resource |-> "POWER_LEASE", amount |-> 60]
      ]_vars

\* C38 witness: a backlog of 51 weak engrams has won the lease at the surge
\* price with the urgency value added, and the engine is FOCUSED
C38_Witness ==
    /\ hpc = "sleep"
    /\ Len(workload_queue) = 51
    /\ result.path = "standard"
    /\ Len(result.allocs) = 1
    /\ result.allocs[1].cost = (51 + 120) * SurgeMultiplier
    /\ mode = FOCUSED
    /\ power_lease.agent_id = AWAKE


\* C39: an engram appears at most once in the workload queue at any time:
\* neither the idle scan nor a metacognitive focused burst enqueues an engram
\* that is already queued.
C39_QueuedOnce ==
    \A i, j \in 1..Len(workload_queue) :
        workload_queue[i] = workload_queue[j] => i = j


\* C40: with the heartbeat and the awake loop both running, energy at or above
\* 20 and an empty queue, the engine eventually performs an idle scan, so a
\* weak engram of the store is eventually enqueued, although every tick the
\* base bid wins and receive_allocation sets the mode to THINKING.
C40_IdleScanEventually ==
    ( /\ running
      /\ workload_queue = <<>>
      /\ energy_level >= LowBattery
      /\ FindWeak(store) # <<>> ) ~> (workload_queue # <<>>)

====
